---- MODULE Spec2Model ----
(***************************************************************************)
(* One-dimensional solvers of mathics/algorithm/optimizers.py:             *)
(* find_minimum_newton1d, find_root_newton and find_root_secant, with the  *)
(* helpers is_zero, get_accuracy_and_prec and determine_epsilon.           *)
(*                                                                         *)
(* Machine reals are modelled as fixed-point numbers: a number is an       *)
(* integer count of 1/Unit, and every product and quotient is rounded to   *)
(* the nearest grid point, as floating-point arithmetic rounds to the      *)
(* nearest representable value.  A value that is not a Number after        *)
(* evaluation (Indeterminate, ComplexInfinity, an unevaluated symbol) is   *)
(* NonNum.  The expression-evaluation collaborator is a family of          *)
(* objectives q*x^3 + a*x^2 + b*x + c whose domain of numeric evaluation   *)
(* may be restricted.                                                      *)
(***************************************************************************)
EXTENDS Integers, Sequences, FiniteSets, TLC

\* Grid resolution: a number n stands for n/Unit.
Unit == 10

\* Largest MaxIterations option drawn.
MaxIt == 3

\* Largest magnitude (in units of 1) of the initial points drawn.
MaxStart == 2

\* Largest goal number drawn when the tolerance helpers are called alone.
MaxGoal == 2

\* Largest number of operands handed to Fold.fold (the initial state is the
\* first of them).
MaxLen == 4

----------------------------------------------------------------------------
(* Values *)

NonNum == [k |-> "nan", v |-> 0]

Num(n) == [k |-> "num", v |-> n]

\* An arithmetic Expression built by Python operators and not yet evaluated;
\* its numeric evaluation is n.
Unevaluated(n) == [k |-> "expr", v |-> n]

\* isinstance(val, Number)
IsNumber(val) == val.k = "num"

\* apply_N: numeric evaluation of a value
apply_N(val) == IF val.k = "expr" THEN Num(val.v) ELSE val

\* val.is_zero: an attribute, False on everything that is not a zero Number
IsZeroAttr(val) == val.k = "num" /\ val.v = 0

AbsI(n) == IF n < 0 THEN 0 - n ELSE n

SignI(n) == IF n < 0 THEN 0 - 1 ELSE IF n > 0 THEN 1 ELSE 0

\* p/q rounded to the nearest integer, halves away from zero (q # 0)
RoundDiv(p, q) ==
    SignI(p) * SignI(q) * ((2 * AbsI(p) + AbsI(q)) \div (2 * AbsI(q)))

Lift2(x, y, n) ==
    IF apply_N(x).k = "num" /\ apply_N(y).k = "num" THEN Num(n) ELSE NonNum

Add(x, y) == Lift2(x, y, apply_N(x).v + apply_N(y).v)

Sub(x, y) == Lift2(x, y, apply_N(x).v - apply_N(y).v)

Neg(x) == IF apply_N(x).k = "num" THEN Num(0 - apply_N(x).v) ELSE NonNum

AbsV(x) == IF apply_N(x).k = "num" THEN Num(AbsI(apply_N(x).v)) ELSE NonNum

\* x * k with k an exact integer
Scale(x, c) == IF apply_N(x).k = "num" THEN Num(apply_N(x).v * c) ELSE NonNum

\* x / k with k an exact non-zero integer
DivInt(x, c) ==
    IF apply_N(x).k = "num" THEN Num(RoundDiv(apply_N(x).v, c)) ELSE NonNum

\* x / y; a division by zero evaluates to ComplexInfinity or Indeterminate
Div(x, y) ==
    IF apply_N(x).k = "num" /\ apply_N(y).k = "num" /\ apply_N(y).v # 0
    THEN Num(RoundDiv(apply_N(x).v * Unit, apply_N(y).v))
    ELSE NonNum

\* LessEqual[x, y] evaluates to True
LessEqualTrue(x, y) == IsNumber(x) /\ IsNumber(y) /\ x.v <= y.v

\* Less[x, y] evaluates to True
LessTrue(x, y) == IsNumber(x) /\ IsNumber(y) /\ x.v < y.v

----------------------------------------------------------------------------
(* The objective, as the collaborator evaluates it *)

\* The point n (shifted by less than half a grid step) is outside the
\* domain on which the objective evaluates to a number.
InHole(fn, n) ==
    CASE fn.hole = "none" -> FALSE
      [] fn.hole = "left" -> n < 0
      [] fn.hole = "window" -> n < Unit \/ n > Unit + Unit \div 2
      [] fn.hole = "pole" -> n = 3 * Unit
      [] OTHER -> TRUE

IsConstant(fn) == fn.hole = "none" /\ fn.q = 0 /\ fn.a = 0 /\ fn.b = 0

\* q*x^3 + a*x^2 + b*x + c at the grid point n
Polynomial(fn, n) ==
    RoundDiv(fn.q * n * n * n, Unit * Unit) + RoundDiv(fn.a * n * n, Unit)
        + fn.b * n + fn.c * Unit

\* its first derivative 3*q*x^2 + 2*a*x + b at the grid point n
Slope(fn, n) == RoundDiv(3 * fn.q * n * n, Unit) + 2 * fn.a * n + fn.b * Unit

\* its second derivative 6*q*x + 2*a at the grid point n
Bend(fn, n) == 6 * fn.q * n + 2 * fn.a * Unit

Signed(neg, n) == IF neg THEN 0 - n ELSE n

\* apply_N(f.replace_vars({x_name: x}), evaluation)
EvalF(fn, x) ==
    IF IsConstant(fn) THEN Num(fn.c * Unit)
    ELSE IF ~IsNumber(x) THEN NonNum
    ELSE IF InHole(fn, x.v) THEN NonNum
    ELSE Num(Polynomial(fn, x.v))

\* -f, the objective of FindMaximum
EvalObj(fn, neg, x) == IF neg THEN Neg(EvalF(fn, x)) ELSE EvalF(fn, x)

\* D[f, x] at x: the symbolic first derivative; fn.d1sym is whether the
\* collaborator can differentiate the objective to something numeric.
EvalD1(fn, neg, x) ==
    IF ~fn.d1sym THEN NonNum
    ELSE IF fn.hole = "none" /\ fn.q = 0 /\ fn.a = 0
    THEN Num(Signed(neg, fn.b * Unit))
    ELSE IF ~IsNumber(x) THEN NonNum
    ELSE IF InHole(fn, x.v) THEN NonNum
    ELSE Num(Signed(neg, Slope(fn, x.v)))

\* D[D[f, x], x] at x
EvalD2(fn, neg, x) ==
    IF ~fn.d1sym \/ ~fn.d2sym THEN NonNum
    ELSE IF fn.hole = "none" /\ fn.q = 0
    THEN Num(Signed(neg, 2 * fn.a * Unit))
    ELSE IF ~IsNumber(x) THEN NonNum
    ELSE IF InHole(fn, x.v) THEN NonNum
    ELSE Num(Signed(neg, Bend(fn, x.v)))

----------------------------------------------------------------------------
(* Goals, the zero test and epsilon *)

None == [some |-> FALSE, v |-> 0]

Some(g) == [some |-> TRUE, v |-> g]

\* Real(12.0), the value of an Automatic goal
AutoGoal == 12

\* 10^k for k >= 0.  Powers beyond 100*Unit are not told apart: every
\* comparison below has the same outcome for all of them, a non-zero grid
\* number being at least 1/Unit in magnitude.
RECURSIVE Pow10(_)
Pow10(k) ==
    IF k <= 0 THEN 1
    ELSE LET p == Pow10(k - 1) IN IF p > 100 * Unit THEN p ELSE 10 * p

\* numerator and denominator of 10^(-g)
TenToMinusNum(g) == IF g < 0 THEN Pow10(0 - g) ELSE 1

TenToMinusDen(g) == IF g > 0 THEN Pow10(g) ELSE 1

\* Log[10^(-acc)/m'] > 0 for the magnitude m' = m/res, m >= 1
LogRatioPositive(m, res, acc) ==
    LET An == TenToMinusNum(acc)
        Ad == TenToMinusDen(acc)
    IN  IF Ad > An * res THEN FALSE ELSE An * res > Ad * m

\* Log[10^(-acc)/m' + 10^(-prec)] > 0 for the magnitude m' = m/res, m >= 1
LogSumPositive(m, res, acc, prec) ==
    LET An == TenToMinusNum(acc)
        Ad == TenToMinusDen(acc)
        Pd == TenToMinusDen(prec)
    IN  IF prec <= 0 THEN TRUE
        ELSE IF Ad >= 2 * An * res THEN FALSE
        ELSE IF Ad * m >= 2 * An * res THEN FALSE
        ELSE An * res * Pd > Ad * m * (Pd - 1)

\* is_zero of the number v.v/res
ZeroTest(v, res, acc_goal, prec_goal) ==
    IF v.k # "num" THEN FALSE
    ELSE IF v.v = 0 THEN TRUE
    ELSE IF acc_goal.some
    THEN IF prec_goal.some
         THEN LogSumPositive(AbsI(v.v), res, acc_goal.v, prec_goal.v)
         ELSE LogRatioPositive(AbsI(v.v), res, acc_goal.v)
    ELSE FALSE

\* is_zero without the numeric evaluation of a value that is not a Number
is_zero_without_N(val, acc_goal, prec_goal) ==
    ZeroTest(val, Unit, acc_goal, prec_goal)

is_zero(val, acc_goal, prec_goal) ==
    ZeroTest(apply_N(val), Unit, acc_goal, prec_goal)

\* is_zero_half testing the whole of val
is_zero_half_as_whole(val, acc_goal, prec_goal) ==
    ZeroTest(apply_N(val), Unit, acc_goal, prec_goal)

\* is_zero(val / Integer2, ...): the half is taken exactly
is_zero_half(val, acc_goal, prec_goal) ==
    ZeroTest(apply_N(val), 2 * Unit, acc_goal, prec_goal)

\* ResolveGoal with Infinity taken for the Automatic goal
ResolveGoalInfinityAsAutomatic(opt) ==
    IF opt.t \in {"Automatic", "Infinity"} THEN Some(AutoGoal)
    ELSE IF opt.t = "Number" THEN Some(opt.v)
    ELSE None

\* One goal option of the bag: absent from it ("Missing"), Automatic,
\* Infinity, something that stays symbolic under N ("Symbolic"), or a number.
ResolveGoal(opt) ==
    CASE opt.t = "Missing" -> None
      [] opt.t = "Automatic" -> Some(AutoGoal)
      [] opt.t = "Infinity" -> None
      [] opt.t = "Number" -> Some(opt.v)
      [] OTHER -> None

\* <<acc_goal, prec_goal>>
get_accuracy_and_prec(opts) ==
    <<ResolveGoal(opts.AccuracyGoal), ResolveGoal(opts.PrecisionGoal)>>

\* determine_epsilon with x0 in the place of abs(x0)
determine_epsilon_signed(x0, opts) ==
    LET acc == ResolveGoal(opts.AccuracyGoal)
        prec == ResolveGoal(opts.PrecisionGoal)
        accTerm == RoundDiv(TenToMinusNum(acc.v) * Unit, TenToMinusDen(acc.v))
        precTerm == RoundDiv(x0.v * TenToMinusNum(prec.v), TenToMinusDen(prec.v))
    IN  IF acc.some
        THEN IF prec.some
             THEN [v |-> accTerm + precTerm, pos |-> TRUE]
             ELSE [v |-> accTerm, pos |-> TRUE]
        ELSE IF prec.some
             THEN [v |-> precTerm, pos |-> x0.v # 0]
             ELSE [v |-> 0, pos |-> TRUE]

\* eps on the grid (v), and whether eps is positive as a real number (pos):
\* a positive eps below half a grid step has v = 0.
determine_epsilon(x0, opts) ==
    LET g == get_accuracy_and_prec(opts)
        acc == g[1]
        prec == g[2]
        m == AbsI(x0.v)
        accTerm == RoundDiv(TenToMinusNum(acc.v) * Unit, TenToMinusDen(acc.v))
        precTerm == RoundDiv(m * TenToMinusNum(prec.v), TenToMinusDen(prec.v))
    IN  IF acc.some
        THEN IF prec.some
             THEN [v |-> accTerm + precTerm, pos |-> TRUE]
             ELSE [v |-> accTerm, pos |-> TRUE]
        ELSE IF prec.some
             THEN [v |-> precTerm, pos |-> m # 0]
             ELSE [v |-> 0, pos |-> TRUE]

----------------------------------------------------------------------------
(* State *)

VARIABLES
    solver,     \* which entry point was called: "min", "newton" or "secant"
    pc,         \* position of the call: "start", "loop", "body", "done"
    f,          \* the objective / the function whose root is sought
    opts,       \* the option bag
    x0,         \* current point
    count,      \* iteration counter
    curr_val,   \* find_minimum_newton1d: objective value at x0
    val_d1,     \* find_minimum_newton1d: first derivative value
    val_d2,     \* find_minimum_newton1d: second derivative value
    d1,         \* find_minimum_newton1d: d1 is not None
    d2,         \* find_minimum_newton1d: d2 is not None
    eps,        \* find_minimum_newton1d: finite-difference step
    currval,    \* find_root_newton: residual |f(x0)|
    x1,         \* find_root_secant: second point of the window
    f0,         \* find_root_secant: f at x0
    f1,         \* find_root_secant: f at x1
    msgs,       \* evaluation.message calls, in order
    ret,        \* what the call returned (or raised)
    stepLog,    \* points the StepMonitor was evaluated at
    evalLog,    \* points the EvaluationMonitor was evaluated at
    passes,     \* loop passes begun by the Newton solvers
    trail,      \* every <<x0, value>> that was current, with how it was reached
    last,       \* branch taken by the latest loop pass
    twin,       \* outcome of the same call made with monitors, once it is
                \* repeated without them
    operands,   \* Fold.fold: list(self._operands(x, ll)), tier tag first
    spans,      \* Fold.fold: the slices of _spans, by mode
    mode,       \* Fold.fold: the mode of the loop over the three tiers
    generator,  \* Fold.fold: the generator of _fold for this mode exists
    consumed,   \* Fold.fold: operands taken so far (by next or by _fold)
    state,      \* Fold.fold: running state inside the generator of _fold
    init,       \* Fold.fold: the variable init (None, or the last result)
    precision,  \* Fold.fold: working precision of this mode (0: None)
    yielded,    \* Fold.fold: everything the generator of fold has yielded
    session     \* test_set_and_clear: the definitions of F in the session
                \* and the elements of the list evaluated so far

vars == <<solver, pc, f, opts, x0, count, curr_val, val_d1, val_d2, d1, d2,
          eps, currval, x1, f0, f1, msgs, ret, stepLog, evalLog, passes,
          trail, last, twin, operands, spans, mode, generator, consumed,
          state, init, precision, yielded, session>>

foldVars == <<operands, spans, mode, generator, consumed, state, init,
              precision, yielded>>

\* what the three solvers and the tolerance helpers leave alone
aside == <<twin, foldVars, session>>

minVars == <<curr_val, val_d1, val_d2, d1, d2, eps>>

secantVars == <<x1, f0, f1>>

maxit == opts.MaxIterations

acc_goal == get_accuracy_and_prec(opts)[1]

prec_goal == get_accuracy_and_prec(opts)[2]

is_find_maximum == opts.isfindmaximum

NoReturn == [kind |-> "none", point |-> NonNum, hasval |-> FALSE,
             value |-> NonNum, ok |-> FALSE]

\* return x, flag
ReturnPoint(x, flag) == [kind |-> "return", point |-> x, hasval |-> FALSE,
                         value |-> NonNum, ok |-> flag]

\* return (x, val), flag
ReturnPair(x, val, flag) == [kind |-> "return", point |-> x, hasval |-> TRUE,
                             value |-> val, ok |-> flag]

\* an exception leaves the call
Raise == [kind |-> "raise", point |-> NonNum, hasval |-> FALSE,
          value |-> NonNum, ok |-> FALSE]

Message(sym, tag, words, at) ==
    [sym |-> sym, tag |-> tag, words |-> words, at |-> at]

\* step_monitor that is never evaluated
step_monitor_skipped(log, o, x) == log

\* if step_monitor: the monitor is evaluated with x bound to the point x0
step_monitor(log, o, x) == IF o.StepMonitor THEN Append(log, x) ELSE log

\* no generator of Fold.fold was created
FoldIdle ==
    /\ operands = <<>>
    /\ spans = <<>>
    /\ mode = 0
    /\ generator = FALSE
    /\ consumed = 0
    /\ state = [rep |-> "none", v |-> 0, prec |-> 0]
    /\ init = [rep |-> "none", v |-> 0, prec |-> 0]
    /\ precision = 0
    /\ yielded = <<>>

\* no call was repeated yet; x is the initial point of the call
NoTwin(x) ==
    [ran |-> FALSE, x0 |-> x, ret |-> NoReturn, count |-> 0, passes |-> 0,
     msgs |-> <<>>, trail |-> <<>>, stepLog |-> <<>>, evalLog |-> <<>>]

\* what a session holds for the user symbol F: its own value (F = Q) and
\* its delayed rule (F[x__] := H[x]); "none" where there is none
Definitions(own, rule) == [own |-> own, rule |-> rule]

NoDefinitions == Definitions("none", "none")

\* reset_session(): no definitions, nothing evaluated
NewSession ==
    [definitions |-> NoDefinitions, out |-> <<>>, op |-> "none",
     before |-> NoDefinitions, assigned |-> NoDefinitions]

----------------------------------------------------------------------------
(* find_minimum_newton1d *)

\* A difference quotient num/den of two grid quantities, den given in
\* units of 1/Unit^2 when sq and of 1/Unit otherwise.
Quotient(num, den, sq) ==
    IF ~IsNumber(num) \/ den = 0 THEN NonNum
    ELSE IF sq THEN Num(RoundDiv(num.v * Unit * Unit, den))
    ELSE Num(RoundDiv(num.v * Unit, den))

\* apply_N((f2val - f1val) / (Integer2 * eps)): the central difference of the
\* objective.  With eps positive but below the grid the probes fall on x's
\* side of every domain boundary and the quotient differs from the
\* derivative by less than the grid; with eps zero the quotient is
\* Indeterminate.
FirstDifference(fn, neg, x, e) ==
    LET f2val == EvalObj(fn, neg, Add(x, Num(e.v)))
        f1val == EvalObj(fn, neg, Sub(x, Num(e.v)))
    IN  IF ~e.pos THEN NonNum
        ELSE IF e.v > 0 THEN Quotient(Sub(f2val, f1val), 2 * e.v, FALSE)
        ELSE IF IsNumber(f2val) /\ IsNumber(x)
        THEN Num(Signed(neg, Slope(fn, x.v)))
        ELSE NonNum

\* apply_N((f2val + f1val - Integer2 * curr_val) / (eps ** Integer2))
SecondDifference(fn, neg, x, e, cv) ==
    LET f2val == EvalObj(fn, neg, Add(x, Num(e.v)))
        f1val == EvalObj(fn, neg, Sub(x, Num(e.v)))
    IN  IF ~e.pos THEN NonNum
        ELSE IF e.v > 0
        THEN Quotient(Sub(Add(f2val, f1val), Scale(cv, 2)), e.v * e.v, TRUE)
        ELSE IF IsNumber(f2val) /\ IsNumber(cv) /\ IsNumber(x)
        THEN Num(Signed(neg, Bend(fn, x.v)))
        ELSE NonNum

\* (df2val - df1val) / (Integer2 * eps): built with Python operators and left
\* unevaluated
DerivDifference(fn, neg, x, e) ==
    LET df2val == EvalD1(fn, neg, Add(x, Num(e.v)))
        df1val == EvalD1(fn, neg, Sub(x, Num(e.v)))
        q == IF ~e.pos THEN NonNum
             ELSE IF e.v > 0 THEN Quotient(Sub(df2val, df1val), 2 * e.v, FALSE)
             ELSE IF IsNumber(df2val) /\ IsNumber(x)
             THEN Num(Signed(neg, Bend(fn, x.v)))
             ELSE NonNum
    IN  IF IsNumber(q) THEN Unevaluated(q.v) ELSE NonNum

\* reevaluate_coeffs(): <<val_d1, val_d2>> at the point x with value cv
reevaluate_coeffs(fn, neg, x, cv, has_d1, has_d2, e) ==
    IF has_d1
    THEN IF has_d2
         THEN <<EvalD1(fn, neg, x), EvalD2(fn, neg, x)>>
         ELSE <<EvalD1(fn, neg, x), DerivDifference(fn, neg, x, e)>>
    ELSE <<FirstDifference(fn, neg, x, e), SecondDifference(fn, neg, x, e, cv)>>

\* x_try of reset_values
x_try(x, offset) ==
    <<DivInt(x, 3), Scale(x, 2), Sub(x, DivInt(offset, 2))>>

\* the candidates of reset_values whose value is a Number, in order
NumericCandidates(fn, neg, x, offset) ==
    LET xs == x_try(x, offset)
        all == [i \in 1..3 |-> [x |-> xs[i], val |-> EvalObj(fn, neg, xs[i])]]
    IN  SelectSeq(all, LAMBDA c : IsNumber(c.val))

\* ScanLess replacing v0 also when the values are equal
RECURSIVE ScanLessEqual(_, _, _)
ScanLessEqual(vals, i, v0) ==
    IF i > Len(vals) THEN v0
    ELSE ScanLessEqual(vals, i + 1,
                       IF LessEqualTrue(vals[i].val, v0.val) THEN vals[i] ELSE v0)

\* the scan of reset_values over vals, starting from v0 = vals[0]
RECURSIVE ScanLess(_, _, _)
ScanLess(vals, i, v0) ==
    IF i > Len(vals) THEN v0
    ELSE ScanLess(vals, i + 1, IF LessTrue(vals[i].val, v0.val) THEN vals[i] ELSE v0)

\* reset_values(x0); failed when vals[0] raises IndexError
reset_values(fn, neg, x, offset) ==
    LET vals == NumericCandidates(fn, neg, x, offset)
    IN  IF Len(vals) = 0
        THEN [failed |-> TRUE, x |-> NonNum, val |-> NonNum]
        ELSE [failed |-> FALSE, x |-> ScanLess(vals, 1, vals[1]).x,
              val |-> ScanLess(vals, 1, vals[1]).val]

\* NextCount with the increment forgotten
NextCountStuck(c) == c

\* count = count + 1
NextCount(c) == c + 1

\* StepAccepted taking every trial point whose value is a Number
StepAcceptedAnyNumber(new_val, cv) == IsNumber(new_val)

\* LessEqual[new_val, curr_val] is True: the trial point is taken
StepAccepted(new_val, cv) == LessEqualTrue(new_val, cv)

\* curr_val as reported: -curr_val for FindMaximum
Reported(neg, cv) == IF neg THEN Neg(cv) ELSE cv

symbol_name == IF is_find_maximum THEN "FindMaximum" ELSE "FindMinimum"

\* the point returned when the objective is not numeric at the start
NnumPoint(neg, x) == IF neg THEN Neg(x) ELSE x

\* lines 34-124: everything before the main loop
find_minimum_newton1d ==
    /\ solver = "min"
    /\ pc = "start"
    /\ LET neg == is_find_maximum
           cv == EvalObj(f, neg, x0)
           e == determine_epsilon(x0, opts)
           vd1 == EvalD1(f, neg, x0)
           vd2 == EvalD2(f, neg, x0)
       IN  /\ eps' = e
           /\ curr_val' = cv
           /\ IF ~IsNumber(cv)
              THEN /\ msgs' = Append(msgs, Message(symbol_name, "nnum", <<>>, x0))
                   /\ ret' = ReturnPoint(NnumPoint(neg, x0), FALSE)
                   /\ pc' = "done"
                   /\ last' = "nnum_start"
                   /\ UNCHANGED <<val_d1, val_d2, d1, d2, trail>>
              ELSE /\ d1' = IsNumber(vd1)
                   /\ d2' = (IsNumber(vd1) /\ IsNumber(vd2))
                   /\ val_d1' = IF IsNumber(vd1) THEN vd1
                                ELSE FirstDifference(f, neg, x0, e)
                   /\ val_d2' = IF ~IsNumber(vd1)
                                THEN SecondDifference(f, neg, x0, e, cv)
                                ELSE IF IsNumber(vd2) THEN vd2
                                ELSE DerivDifference(f, neg, x0, e)
                   /\ pc' = "loop"
                   /\ last' = "init"
                   /\ trail' = <<[x |-> x0, val |-> cv, how |-> "init"]>>
                   /\ UNCHANGED <<msgs, ret>>
    /\ UNCHANGED <<aside, solver, f, opts, x0, count, currval, x1, f0, f1, stepLog,
                   evalLog, passes>>

\* val_d2 after "if val_d2.is_zero: val_d2 = Integer1"
Curvature(vd2) == IF IsZeroAttr(vd2) THEN Num(Unit) ELSE vd2

\* offset = apply_N(val_d1 / abs(val_d2), evaluation)
NewtonOffset(vd1, vd2) == Div(vd1, AbsV(Curvature(vd2)))

\* fmgz_words without the swap for FindMaximum
fmgz_words_unswapped == <<"minimum", "maximum">>

fmgz_words == IF is_find_maximum THEN <<"maximum", "minimum">>
              ELSE <<"minimum", "maximum">>

\* lines 126-169: one pass of the main loop
find_minimum_newton1d_loop ==
    /\ solver = "min"
    /\ pc = "loop"
    /\ count < maxit
    /\ passes' = passes + 1
    /\ stepLog' = step_monitor(stepLog, opts, x0)
    /\ LET neg == is_find_maximum
           offset == NewtonOffset(val_d1, val_d2)
           x1n == Sub(x0, offset)
           new_val == EvalObj(f, neg, x1n)
           seed == reset_values(f, neg, x0, offset)
           Continue(x, cv, how) ==
               /\ x0' = x
               /\ curr_val' = cv
               /\ val_d1' = reevaluate_coeffs(f, neg, x, cv, d1, d2, eps)[1]
               /\ val_d2' = reevaluate_coeffs(f, neg, x, cv, d1, d2, eps)[2]
               /\ count' = NextCount(count)
               /\ trail' = Append(trail, [x |-> x, val |-> cv, how |-> how])
               /\ last' = how
               /\ UNCHANGED <<pc, msgs, ret>>
           Finish(r, how, m) ==
               /\ ret' = r
               /\ pc' = "done"
               /\ msgs' = msgs \o m
               /\ last' = how
               /\ UNCHANGED <<x0, curr_val, val_d1, val_d2, count, trail>>
       IN  IF IsZeroAttr(val_d1)
           THEN Finish(ReturnPair(x0, Reported(neg, curr_val), TRUE), "fmgz",
                       <<Message(symbol_name, "fmgz", fmgz_words, NonNum)>>)
           ELSE IF StepAccepted(new_val, curr_val)
           THEN IF is_zero(offset, acc_goal, prec_goal)
                THEN Finish(ReturnPair(x1n, Reported(neg, curr_val), TRUE),
                            "converged_x1", <<>>)
                ELSE Continue(x1n, new_val, "step")
           ELSE IF is_zero_half(offset, acc_goal, prec_goal)
                THEN Finish(ReturnPair(x0, Reported(neg, curr_val), TRUE),
                            "converged_x0", <<>>)
                ELSE IF seed.failed
                THEN Finish(Raise, "IndexError", <<>>)
                ELSE Continue(seed.x, seed.val, "reseed")
    /\ UNCHANGED <<aside, solver, f, opts, d1, d2, eps, currval, x1, f0, f1, evalLog>>

\* MinCapReturn with the flag of find_root_newton's last line
MinCapReturnTrue == ReturnPair(x0, Reported(is_find_maximum, curr_val), TRUE)

\* lines 172-175: the return after the loop
MinCapReturn == ReturnPair(x0, Reported(is_find_maximum, curr_val), FALSE)

\* lines 170-175: the loop's else clause and the return after it
find_minimum_newton1d_else ==
    /\ solver = "min"
    /\ pc = "loop"
    /\ ~(count < maxit)
    /\ msgs' = Append(msgs, Message(symbol_name, "maxiter", <<>>, NonNum))
    /\ ret' = MinCapReturn
    /\ pc' = "done"
    /\ last' = "maxiter"
    /\ UNCHANGED <<aside, solver, f, opts, x0, count, minVars, currval, secantVars,
                   stepLog, evalLog, passes, trail>>

----------------------------------------------------------------------------
(* find_root_newton *)

\* absf = abs(f) at x
EvalAbsF(fn, x) == AbsV(EvalF(fn, x))

\* apply_N(df, evaluation) with x bound to the point: the Jacobian option is
\* the derivative of f ("D") or the constant 1 ("one")
EvalJacobian(fn, jac, x) ==
    IF jac = "one" THEN Num(Unit) ELSE EvalD1(fn, FALSE, x)

\* decreasing(val1, val2): val2 has a smaller absolute value than val1
decreasing(val1, val2) ==
    IF ~(IsNumber(val1) /\ IsNumber(val2)) THEN FALSE
    ELSE IF val2.v = 0 THEN TRUE
    ELSE IF val1.v = 0 THEN FALSE
    ELSE AbsI(val2.v) < AbsI(val1.v)

\* new_seed(): <<x, absf(x)>> of the candidate kept
new_seed(fn, x, minus) ==
    LET c1 == Scale(x, 2)
        c2 == DivInt(x, 3)
        c3 == Sub(x, DivInt(minus, 2))
        c4 == Add(x, DivInt(minus, 3))
        absf1 == EvalAbsF(fn, c1)
        absf2 == EvalAbsF(fn, c2)
        absf3 == EvalAbsF(fn, c3)
        absf4 == EvalAbsF(fn, c4)
        s1 == <<c1, absf1>>
        s2 == IF decreasing(s1[2], absf2) THEN <<c2, absf2>> ELSE s1
        s3 == IF decreasing(s2[2], absf3) THEN <<c3, absf3>> ELSE s2
        s4 == IF decreasing(s3[2], absf4) THEN <<c4, absf4>> ELSE s3
    IN  s4

\* sub with the EvaluationMonitor evaluated before the test of d_value
sub_monitor_first(fn, jac, x) ==
    LET d_value == EvalJacobian(fn, jac, x)
    IN  IF IsNumber(d_value) /\ d_value.v = 0
        THEN [none |-> TRUE, result |-> NonNum, monitored |-> TRUE]
        ELSE [none |-> FALSE, result |-> Div(EvalF(fn, x), d_value),
              monitored |-> TRUE]

\* sub(evaluation): the Newton step f/df at x; none when df is exactly zero;
\* monitored when the call reached the EvaluationMonitor
sub(fn, jac, x) ==
    LET d_value == EvalJacobian(fn, jac, x)
    IN  IF IsNumber(d_value) /\ d_value.v = 0
        THEN [none |-> TRUE, result |-> NonNum, monitored |-> FALSE]
        ELSE [none |-> FALSE, result |-> Div(EvalF(fn, x), d_value),
              monitored |-> TRUE]

\* lines 254-321: everything before the loop
find_root_newton ==
    /\ solver = "newton"
    /\ pc = "start"
    /\ currval' = EvalAbsF(f, x0)
    /\ pc' = "loop"
    /\ last' = "init"
    /\ trail' = <<[x |-> x0, val |-> EvalAbsF(f, x0), how |-> "init"]>>
    /\ UNCHANGED <<aside, solver, f, opts, x0, count, minVars, secantVars, msgs, ret,
                   stepLog, evalLog, passes>>

\* whether the loop rejects the step to a point of residual new_currval
StepRejected(new_currval, cv) == decreasing(new_currval, cv)

\* lines 322-353: one pass of the loop
find_root_newton_loop ==
    /\ solver = "newton"
    /\ pc = "loop"
    /\ count < maxit
    /\ passes' = passes + 1
    /\ stepLog' = step_monitor(stepLog, opts, x0)
    /\ LET minus == sub(f, opts.Jacobian, x0)
           x1n == Sub(x0, minus.result)
           new_currval == EvalAbsF(f, x1n)
           seed == new_seed(f, x0, minus.result)
           Continue(x, cv, how) ==
               /\ x0' = x
               /\ currval' = cv
               /\ count' = NextCount(count)
               /\ trail' = Append(trail, [x |-> x, val |-> cv, how |-> how])
               /\ last' = how
               /\ UNCHANGED <<pc, msgs, ret>>
           Finish(r, how, m) ==
               /\ ret' = r
               /\ pc' = "done"
               /\ msgs' = msgs \o m
               /\ last' = how
               /\ UNCHANGED <<x0, currval, count, trail>>
       IN  /\ evalLog' = IF opts.EvaluationMonitor /\ minus.monitored
                         THEN Append(evalLog, x0) ELSE evalLog
           /\ IF minus.none
              THEN Finish(ReturnPoint(x0, FALSE), "dsing",
                          <<Message("FindRoot", "dsing", <<>>, x0)>>)
              ELSE IF ~IsNumber(x1n)
              THEN Finish(ReturnPoint(x0, FALSE), "nnum",
                          <<Message("FindRoot", "nnum", <<>>, x0)>>)
              ELSE IF is_zero(new_currval, acc_goal, prec_goal)
              THEN Finish(ReturnPoint(x1n, TRUE), "converged_x1", <<>>)
              ELSE IF StepRejected(new_currval, currval)
              THEN Continue(seed[1], seed[2], "reseed")
              ELSE Continue(x1n, new_currval, "step")
    /\ UNCHANGED <<aside, solver, f, opts, minVars, secantVars>>

\* line 356: the return after the loop
NewtonCapReturn == ReturnPoint(x0, TRUE)

\* lines 354-356: the loop's else clause and the return after it
find_root_newton_else ==
    /\ solver = "newton"
    /\ pc = "loop"
    /\ ~(count < maxit)
    /\ msgs' = Append(msgs, Message("FindRoot", "maxiter", <<>>, NonNum))
    /\ ret' = NewtonCapReturn
    /\ pc' = "done"
    /\ last' = "maxiter"
    /\ UNCHANGED <<aside, solver, f, opts, x0, count, minVars, currval, secantVars,
                   stepLog, evalLog, passes, trail>>

----------------------------------------------------------------------------
(* find_root_secant *)

\* lines 179-189: the bracket, from $$Region or from the seed
Region(o, x) ==
    IF o.Region.given THEN <<o.Region.lo, o.Region.hi>>
    ELSE IF IsZeroAttr(x) THEN <<Num(0 - Unit), Num(Unit)>>
    ELSE IF 0 - 2 * x.v > 2 * x.v THEN <<Num(2 * x.v), Num(0 - 2 * x.v)>>
    ELSE <<Num(0 - 2 * x.v), Num(2 * x.v)>>

\* lines 178-208: everything before the loop
find_root_secant ==
    /\ solver = "secant"
    /\ pc = "start"
    /\ LET r == Region(opts, x0)
           v0 == EvalF(f, r[1])
           v1 == EvalF(f, r[2])
       IN  /\ x0' = r[1]
           /\ x1' = r[2]
           /\ f0' = v0
           /\ f1' = v1
           /\ trail' = <<[x |-> r[1], val |-> v0, how |-> "init"]>>
           /\ IF ~IsNumber(v0) \/ ~IsNumber(v1)
              THEN /\ ret' = ReturnPoint(r[1], FALSE)
                   /\ pc' = "done"
                   /\ last' = "nnum_start"
              ELSE /\ pc' = "while"
                   /\ last' = "init"
                   /\ UNCHANGED ret
    /\ UNCHANGED <<aside, solver, f, opts, count, minVars, currval, msgs, stepLog,
                   evalLog, passes>>

\* line 250: the return of the loop's else clause
SecantCapReturn == ReturnPoint(x0, FALSE)

\* line 209 and lines 248-250: the loop test, and the else clause when it fails
find_root_secant_while ==
    /\ solver = "secant"
    /\ pc = "while"
    /\ IF count < maxit
       THEN /\ pc' = "body"
            /\ UNCHANGED <<msgs, ret, last>>
       ELSE /\ msgs' = Append(msgs, Message("FindRoot", "maxiter", <<>>, NonNum))
            /\ ret' = SecantCapReturn
            /\ pc' = "done"
            /\ last' = "maxiter"
    /\ UNCHANGED <<aside, solver, f, opts, x0, count, minVars, currval, secantVars,
                   stepLog, evalLog, passes, trail>>

\* Perturbed measured from the second point: x1 - 0.75 * (x1 - x0)
PerturbedFromSecond(a, b) == Num(b.v - RoundDiv(3 * (b.v - a.v), 4))

\* x0 + 0.75 * (x1 - x0)
Perturbed(a, b) == Num(a.v + RoundDiv(3 * (b.v - a.v), 4))

\* lines 210-227: the degenerate bracket, ending in "continue"
find_root_secant_perturb ==
    /\ solver = "secant"
    /\ pc = "body"
    /\ f0 = f1
    /\ LET x1n == Perturbed(x0, x1)
           v1 == EvalF(f, x1n)
       IN  /\ x1' = x1n
           /\ f1' = v1
           /\ IF ~IsNumber(v1)
              THEN /\ ret' = ReturnPoint(x0, FALSE)
                   /\ pc' = "done"
                   /\ last' = "nnum"
              ELSE /\ pc' = "while"
                   /\ last' = "perturb"
                   /\ UNCHANGED ret
    /\ UNCHANGED <<aside, solver, f, opts, x0, count, minVars, currval, f0, msgs,
                   stepLog, evalLog, passes, trail>>

\* Interpolate taking the middle of the window
InterpolateMiddle(a, fa, b, fb) == Num(RoundDiv(a.v + b.v, 2))

\* x2 = (x0*f1 - x1*f0) * (1.0 / (f1 - f0)); the reciprocal's rounding is
\* relative and below the grid, so the product is rounded once
Interpolate(a, fa, b, fb) ==
    Num(RoundDiv(a.v * fb.v - b.v * fa.v, fb.v - fa.v))

\* lines 229-247: the secant step
find_root_secant_step ==
    /\ solver = "secant"
    /\ pc = "body"
    /\ f0 # f1
    /\ LET x2 == Interpolate(x0, f0, x1, f1)
           f2 == EvalF(f, x2)
       IN  IF ~IsNumber(f2)
           THEN /\ ret' = ReturnPoint(x0, FALSE)
                /\ pc' = "done"
                /\ last' = "nnum"
                /\ UNCHANGED <<x0, x1, f0, f1, count, trail>>
           ELSE /\ f1' = f2
                /\ f0' = f1
                /\ x1' = x2
                /\ x0' = x1
                /\ trail' = Append(trail, [x |-> x1, val |-> f1, how |-> "step"])
                /\ IF x2 = x1 \/ AbsI(f2.v) = 0
                   THEN /\ ret' = ReturnPoint(x1, TRUE)
                        /\ pc' = "done"
                        /\ last' = "break"
                        /\ UNCHANGED count
                   ELSE /\ count' = NextCount(count)
                        /\ pc' = "while"
                        /\ last' = "step"
                        /\ UNCHANGED ret
    /\ UNCHANGED <<aside, solver, f, opts, minVars, currval, msgs, stepLog, evalLog,
                   passes>>

----------------------------------------------------------------------------
(* The calls drawn *)

\* initial points: the multiples of 1/2 up to MaxStart in magnitude
Starts == {Num(n * (Unit \div 2)) : n \in (0 - 2 * MaxStart)..(2 * MaxStart)}

Objective(q, a, b, c, hole, s1, s2) ==
    [q |-> q, a |-> a, b |-> b, c |-> c, hole |-> hole, d1sym |-> s1,
     d2sym |-> s2]

\* which derivatives the collaborator evaluates to numbers: both, the first
\* only, none
Differentiability == {<<TRUE, TRUE>>, <<TRUE, FALSE>>, <<FALSE, FALSE>>}

\* objectives of find_minimum_newton1d: quadratics on a whole or restricted
\* domain, cubics, and the cubic x^3 - 5 x^2 + 4 x with a pole at 3 whose
\* term is below the grid everywhere else
MinObjectives ==
    {Objective(0, a, b, 0, h, s[1], s[2]) :
        a \in {0 - 1, 0, 1}, b \in {0 - 2, 0, 1},
        h \in {"none", "left", "window"}, s \in Differentiability}
    \cup
    {Objective(1, a, b, 0, "none", s[1], s[2]) :
        a \in {0 - 1, 0}, b \in {0 - 3, 0}, s \in Differentiability}
    \cup
    {Objective(1, 0 - 5, 4, 0, "pole", s[1], s[2]) : s \in Differentiability}

\* functions of the root finders: constants, lines and parabolas on a whole
\* or restricted domain, and the parabola x^2 - 3 x + 5, which has no real
\* root and whose Newton step from a point near its vertex overshoots
RootFunctions ==
    {Objective(0, a, b, c, h, s, FALSE) :
        a \in {0, 1}, b \in {0 - 1, 0, 1}, c \in {0 - 1, 0, 1},
        h \in {"none", "left", "pole"}, s \in BOOLEAN}
    \cup
    {Objective(0, 1, 0 - 3, 5, "none", TRUE, FALSE)}

GoalOption(t, v) == [t |-> t, v |-> v]

\* <<AccuracyGoal, PrecisionGoal>> as given in the option bag
GoalBags ==
    {<<GoalOption("Missing", 0), GoalOption("Missing", 0)>>,
     <<GoalOption("Automatic", 0), GoalOption("Automatic", 0)>>,
     <<GoalOption("Number", 1), GoalOption("Infinity", 0)>>,
     <<GoalOption("Number", 0), GoalOption("Number", 1)>>,
     <<GoalOption("Symbolic", 0), GoalOption("Number", 1)>>}

\* find_root_secant reads no goal
NoGoals == <<GoalOption("Missing", 0), GoalOption("Missing", 0)>>

NoRegion == [given |-> FALSE, lo |-> NonNum, hi |-> NonNum]

\* $$Region brackets given explicitly
Regions == {NoRegion,
            [given |-> TRUE, lo |-> Num(0), hi |-> Num(2 * Unit)],
            [given |-> TRUE, lo |-> Num(Unit), hi |-> Num(Unit)],
            [given |-> TRUE, lo |-> Num(0), hi |-> Num(4 * Unit)]}

Options(m, g, mx, sm, em, jac, reg) ==
    [MaxIterations |-> m, AccuracyGoal |-> g[1], PrecisionGoal |-> g[2],
     isfindmaximum |-> mx, StepMonitor |-> sm, EvaluationMonitor |-> em,
     Jacobian |-> jac, Region |-> reg]

MinCalls ==
    {<<fn, Options(m, g, mx, sm, FALSE, "D", NoRegion)>> :
        fn \in MinObjectives, m \in 0..MaxIt, g \in GoalBags,
        mx \in BOOLEAN, sm \in BOOLEAN}

NewtonCalls ==
    {<<fn, Options(m, g, FALSE, mon, mon, jac, NoRegion)>> :
        fn \in RootFunctions, m \in 0..MaxIt, g \in GoalBags,
        mon \in BOOLEAN, jac \in {"D", "one"}}

SecantCalls ==
    {<<fn, Options(m, NoGoals, FALSE, FALSE, FALSE, "D", reg)>> :
        fn \in RootFunctions, m \in 0..MaxIt, reg \in Regions}

Init ==
    /\ solver \in {"min", "newton", "secant"}
    /\ \E call \in (CASE solver = "min" -> MinCalls
                      [] solver = "newton" -> NewtonCalls
                      [] OTHER -> SecantCalls) :
          /\ f = call[1]
          /\ opts = call[2]
    /\ x0 \in Starts
    /\ pc = "start"
    /\ count = 0
    /\ curr_val = NonNum
    /\ val_d1 = NonNum
    /\ val_d2 = NonNum
    /\ d1 = FALSE
    /\ d2 = FALSE
    /\ eps = [v |-> 0, pos |-> FALSE]
    /\ currval = NonNum
    /\ x1 = NonNum
    /\ f0 = NonNum
    /\ f1 = NonNum
    /\ msgs = <<>>
    /\ ret = NoReturn
    /\ stepLog = <<>>
    /\ evalLog = <<>>
    /\ passes = 0
    /\ trail = <<>>
    /\ last = "none"
    /\ twin = NoTwin(x0)
    /\ FoldIdle
    /\ session = NewSession

Next ==
    \/ find_minimum_newton1d
    \/ find_minimum_newton1d_loop
    \/ find_minimum_newton1d_else
    \/ find_root_newton
    \/ find_root_newton_loop
    \/ find_root_newton_else
    \/ find_root_secant
    \/ find_root_secant_while
    \/ find_root_secant_perturb
    \/ find_root_secant_step

Spec == Init /\ [][Next]_vars

\* The calls of find_root_secant alone.  A call runs on: the interpreter
\* always takes the next step of the loop.
SecantInit == Init /\ solver = "secant"

SecantNext ==
    \/ find_root_secant
    \/ find_root_secant_while
    \/ find_root_secant_perturb
    \/ find_root_secant_step

SecantFairSpec == SecantInit /\ [][SecantNext]_vars /\ WF_vars(SecantNext)

----------------------------------------------------------------------------
(* A call with monitors, repeated without them *)

Unmonitored(o) == [o EXCEPT !.StepMonitor = FALSE, !.EvaluationMonitor = FALSE]

\* The caller keeps what the call with monitors returned and makes the same
\* call again (same function, same initial point, same options) with
\* StepMonitor and EvaluationMonitor set to None.
call_without_monitors ==
    /\ solver \in {"min", "newton"}
    /\ pc = "done"
    /\ ~twin.ran
    /\ opts.StepMonitor \/ opts.EvaluationMonitor
    /\ twin' = [ran |-> TRUE, x0 |-> twin.x0, ret |-> ret, count |-> count,
                passes |-> passes, msgs |-> msgs, trail |-> trail,
                stepLog |-> stepLog, evalLog |-> evalLog]
    /\ opts' = Unmonitored(opts)
    /\ x0' = twin.x0
    /\ pc' = "start"
    /\ count' = 0
    /\ curr_val' = NonNum
    /\ val_d1' = NonNum
    /\ val_d2' = NonNum
    /\ d1' = FALSE
    /\ d2' = FALSE
    /\ eps' = [v |-> 0, pos |-> FALSE]
    /\ currval' = NonNum
    /\ msgs' = <<>>
    /\ ret' = NoReturn
    /\ stepLog' = <<>>
    /\ evalLog' = <<>>
    /\ passes' = 0
    /\ trail' = <<>>
    /\ last' = "none"
    /\ UNCHANGED <<solver, f, secantVars, foldVars, session>>

MonitorInit == Init /\ solver \in {"min", "newton"}

MonitorNext ==
    \/ find_minimum_newton1d
    \/ find_minimum_newton1d_loop
    \/ find_minimum_newton1d_else
    \/ find_root_newton
    \/ find_root_newton_loop
    \/ find_root_newton_else
    \/ call_without_monitors

MonitorSpec == MonitorInit /\ [][MonitorNext]_vars

----------------------------------------------------------------------------
(* The tolerance helpers called on their own *)

\* a goal option as it may stand in the bag
GoalChoices ==
    {GoalOption("Missing", 0), GoalOption("Automatic", 0),
     GoalOption("Infinity", 0), GoalOption("Symbolic", 0)}
    \cup {GoalOption("Number", g) : g \in (0 - 1)..MaxGoal}

\* option bags that differ in the goals only
GoalOptions ==
    {Options(0, <<a, p>>, FALSE, FALSE, FALSE, "D", NoRegion) :
        a \in GoalChoices, p \in GoalChoices}

\* numbers handed to the helpers
GridValues == {Num(n) : n \in (0 - MaxStart * Unit)..(MaxStart * Unit)}

\* values handed to is_zero: numbers, expressions that N turns into a
\* number, and values that stay non-numeric
ZeroTestValues == GridValues \cup {NonNum, Unevaluated(0), Unevaluated(Unit)}

\* return acc_goal, prec_goal
ReturnGoals(g) == [kind |-> "return", acc_goal |-> g[1], prec_goal |-> g[2]]

\* return True / return False
ReturnBool(b) == [kind |-> "return", ok |-> b]

\* return eps
ReturnEps(e) == [kind |-> "return", eps |-> e]

ToleranceInit ==
    /\ solver \in {"is_zero", "get_accuracy_and_prec", "determine_epsilon"}
    /\ opts \in GoalOptions
    /\ x0 \in (CASE solver = "is_zero" -> ZeroTestValues
               [] solver = "determine_epsilon" -> GridValues
               [] OTHER -> {Num(0)})
    /\ f = Objective(0, 0, 0, 0, "none", FALSE, FALSE)
    /\ pc = "start"
    /\ count = 0
    /\ curr_val = NonNum
    /\ val_d1 = NonNum
    /\ val_d2 = NonNum
    /\ d1 = FALSE
    /\ d2 = FALSE
    /\ eps = [v |-> 0, pos |-> FALSE]
    /\ currval = NonNum
    /\ x1 = NonNum
    /\ f0 = NonNum
    /\ f1 = NonNum
    /\ msgs = <<>>
    /\ ret = NoReturn
    /\ stepLog = <<>>
    /\ evalLog = <<>>
    /\ passes = 0
    /\ trail = <<>>
    /\ last = "none"
    /\ twin = NoTwin(x0)
    /\ FoldIdle
    /\ session = NewSession

\* lines 371-397, called with the value x0 and the resolved goals
is_zero_call ==
    /\ solver = "is_zero"
    /\ pc = "start"
    /\ ret' = ReturnBool(is_zero(x0, acc_goal, prec_goal))
    /\ pc' = "done"
    /\ UNCHANGED <<aside, solver, f, opts, x0, count, minVars, currval, secantVars,
                   msgs, stepLog, evalLog, passes, trail, last>>

\* lines 400-424
get_accuracy_and_prec_call ==
    /\ solver = "get_accuracy_and_prec"
    /\ pc = "start"
    /\ ret' = ReturnGoals(get_accuracy_and_prec(opts))
    /\ pc' = "done"
    /\ UNCHANGED <<aside, solver, f, opts, x0, count, minVars, currval, secantVars,
                   msgs, stepLog, evalLog, passes, trail, last>>

\* lines 427-443
determine_epsilon_call ==
    /\ solver = "determine_epsilon"
    /\ pc = "start"
    /\ ret' = ReturnEps(determine_epsilon(x0, opts))
    /\ pc' = "done"
    /\ UNCHANGED <<aside, solver, f, opts, x0, count, minVars, currval, secantVars,
                   msgs, stepLog, evalLog, passes, trail, last>>

ToleranceNext ==
    \/ is_zero_call
    \/ get_accuracy_and_prec_call
    \/ determine_epsilon_call

ToleranceSpec == ToleranceInit /\ [][ToleranceNext]_vars

----------------------------------------------------------------------------
(* Properties *)

Returned == pc = "done" /\ ret.kind = "return"

\* the number of 'maxiter' messages emitted so far
MaxiterCount == Cardinality({i \in 1..Len(msgs) : msgs[i].tag = "maxiter"})

\* C1: find_root_newton returns converged = false (with 'maxiter') when it
\* leaves its loop at the iteration cap, and returns converged = true only
\* from the zero-test exit.
C1_NewtonCapReturnsFalse ==
    (solver = "newton" /\ Returned) =>
        /\ (last = "maxiter" => ~ret.ok /\ MaxiterCount = 1)
        /\ (ret.ok => last = "converged_x1")

\* C2: every call of find_root_secant comes to an end (a return): it does
\* not stay in the degenerate-bracket branch forever.
C2_SecantTerminates == <>(pc = "done")

\* C3: every call of the three solvers ends by returning a point and a
\* success flag; none ends with an uncaught failure.
C3_AlwaysReturns == pc = "done" => ret.kind = "return"

\* C4: in find_root_newton no accepted Newton step and no reseed makes a
\* point whose residual is not a Number the current point.
C4_CurrentResidualNumeric ==
    solver = "newton" =>
        \A i \in 2..Len(trail) : IsNumber(trail[i].val)

\* the exit was the loop's else clause
CapExit == pc = "done" /\ last = "maxiter"

\* C5: find_minimum_newton1d and find_root_secant emit 'maxiter' exactly once
\* when they exhaust the iteration cap, and return converged = false there;
\* every other exit happens before the cap and emits no 'maxiter'.
C5_CapExitOnceAndFalse ==
    solver \in {"min", "secant"} =>
        /\ MaxiterCount = (IF CapExit THEN 1 ELSE 0)
        /\ CapExit => ret.kind = "return" /\ ~ret.ok /\ count = maxit
        /\ (pc = "done" /\ ~CapExit /\ last # "nnum_start") => count < maxit
        /\ (pc = "done" /\ ret.kind = "return" /\ ret.ok) => ~CapExit

\* C5 witness: find_minimum_newton1d left through the else clause after at
\* least two passes.
C5_Witness ==
    solver = "min" /\ CapExit /\ count >= 2 /\ MaxiterCount = 1

\* C6: find_minimum_newton1d and find_root_newton begin at most maxIterations
\* passes: each pass that does not return advances the counter by one.
C6_PassesBounded ==
    solver \in {"min", "newton"} =>
        /\ passes <= maxit
        /\ count <= maxit
        /\ pc = "loop" => passes = count
        /\ pc = "done" => passes \in {count, count + 1}

\* C6 witness: a call of find_root_newton that stepped, reseeded and then
\* ran into the cap.
C6_Witness ==
    /\ solver = "newton"
    /\ CapExit
    /\ passes = maxit
    /\ \E i, j \in 1..Len(trail) : trail[i].how = "step" /\ trail[j].how = "reseed"

\* C7: when the objective is not numeric at the initial point,
\* find_minimum_newton1d runs no iteration and returns converged = false
\* with the initial point unmodified, for FindMaximum as for FindMinimum.
C7_NnumKeepsPoint ==
    (solver = "min" /\ pc = "done" /\ last = "nnum_start") =>
        /\ ret.kind = "return"
        /\ ~ret.ok
        /\ passes = 0
        /\ ret.point = x0

\* index of the latest entry of the trail that is the start or a reseed
LastRestart(t) ==
    CHOOSE i \in 1..Len(t) :
        /\ t[i].how \in {"init", "reseed"}
        /\ \A j \in (i + 1)..Len(t) : t[j].how = "step"

\* C8 as claimed: at the iteration cap find_minimum_newton1d returns the
\* best point found: its objective value is no larger than the value of any
\* point that was current during the call.
C8_CapReturnsBest ==
    (solver = "min" /\ CapExit) =>
        \A i \in 1..Len(trail) :
            EvalObj(f, is_find_maximum, ret.point).v <= trail[i].val.v

\* C8 as amended: at the iteration cap find_minimum_newton1d returns the
\* point that is current then, with its objective value; that value is no
\* larger than the value of any point that was current since the latest
\* reseed (since the start when there was none).
C8_CapReturnsCurrent ==
    (solver = "min" /\ CapExit) =>
        /\ ret.point = trail[Len(trail)].x
        /\ ret.value = Reported(is_find_maximum, trail[Len(trail)].val)
        /\ EvalObj(f, is_find_maximum, ret.point) = trail[Len(trail)].val
        /\ \A i \in LastRestart(trail)..Len(trail) :
              EvalObj(f, is_find_maximum, ret.point).v <= trail[i].val.v

\* C8 witness: a cap exit after a reseed that was followed by an accepted
\* step, the reseed having moved to a point worse than an earlier one.
C8_Witness ==
    /\ solver = "min"
    /\ CapExit
    /\ trail[Len(trail)].how = "step"
    /\ \E i \in 2..Len(trail) :
          trail[i].how = "reseed" /\ trail[i].val.v > trail[i - 1].val.v

\* C9: when val_d1 is exactly zero at the start of an iteration,
\* find_minimum_newton1d emits 'fmgz' (words swapped for FindMaximum) and
\* returns at once the current point, the objective there and converged =
\* true, with no step and no reseed.
C9_ZeroSlopeReturns ==
    [][(solver = "min" /\ pc = "loop" /\ count < maxit /\ IsZeroAttr(val_d1)) =>
        /\ pc' = "done"
        /\ ret' = ReturnPair(x0, EvalF(f, x0), TRUE)
        /\ msgs' = Append(msgs,
              IF opts.isfindmaximum
              THEN Message("FindMaximum", "fmgz", <<"maximum", "minimum">>, NonNum)
              ELSE Message("FindMinimum", "fmgz", <<"minimum", "maximum">>, NonNum))
        /\ x0' = x0
        /\ curr_val' = curr_val
        /\ count' = count
        /\ trail' = trail]_vars

\* C9 witness: FindMaximum returned through 'fmgz' in a pass after the first.
C9_Witness ==
    /\ solver = "min"
    /\ pc = "done"
    /\ last = "fmgz"
    /\ opts.isfindmaximum
    /\ passes >= 2
    /\ ret.ok

\* C10: when the derivative is exactly zero at the current point,
\* find_root_newton emits 'dsing' and returns the current point with
\* converged = false in that iteration: no step, no reseed, no further
\* iteration, and no EvaluationMonitor evaluation for it.
C10_SingularDerivativeReturns ==
    [][(/\ solver = "newton"
        /\ pc = "loop"
        /\ count < maxit
        /\ EvalJacobian(f, opts.Jacobian, x0) = Num(0)) =>
        /\ pc' = "done"
        /\ ret' = ReturnPoint(x0, FALSE)
        /\ msgs' = Append(msgs, Message("FindRoot", "dsing", <<>>, x0))
        /\ evalLog' = evalLog
        /\ x0' = x0
        /\ currval' = currval
        /\ count' = count
        /\ trail' = trail]_vars

\* C10 witness: 'dsing' in a pass after the first, with an EvaluationMonitor
\* that was evaluated in the earlier passes only.
C10_Witness ==
    /\ solver = "newton"
    /\ pc = "done"
    /\ last = "dsing"
    /\ opts.EvaluationMonitor
    /\ passes >= 2
    /\ Len(evalLog) = passes - 1

----------------------------------------------------------------------------
(* The tolerance helpers: properties checked under ToleranceSpec *)

\* the value handed to is_zero is zero after numeric evaluation
ExactZero(val) == val \in {Num(0), Unevaluated(0)}

\* the goal the option stands for is absent
GoalAbsent(opt) == opt.t \in {"Missing", "Infinity", "Symbolic"}

\* the goal number the option stands for when it is present
GoalNumber(opt) == IF opt.t = "Automatic" THEN 12 ELSE opt.v

\* 10^k for k >= 0, with every power above 10^3 replaced by 10^3.  For
\* goals of at least -1 and magnitudes between 1/Unit and MaxStart the
\* comparisons below have the same outcome with the true power.
TenTo(k) == IF k <= 0 THEN 1 ELSE IF k = 1 THEN 10 ELSE IF k = 2 THEN 100 ELSE 1000

\* 10^(-acc)/|v| + 10^(-prec) > 1 for |v| = m/Unit, m >= 1
BandExceedsOne(m, acc, prec) ==
    LET An == TenTo(0 - acc)
        Ad == TenTo(acc)
        Pn == TenTo(0 - prec)
        Pd == TenTo(prec)
    IN  An * Unit * Pd + Pn * Ad * m > Ad * m * Pd

\* 10^(-acc) > |v| for |v| = m/Unit
AccuracyExceeds(m, acc) == TenTo(0 - acc) * Unit > TenTo(acc) * m

\* C11: is_zero returns true for an exactly-zero value under every
\* combination of goals; with both goals absent it returns true if and only
\* if the value is exactly zero; a value that stays non-numeric after
\* numeric evaluation yields false.
C11_ExactZeroAndNoGoals ==
    (solver = "is_zero" /\ pc = "done") =>
        /\ ExactZero(x0) => ret.ok
        /\ (GoalAbsent(opts.AccuracyGoal) /\ GoalAbsent(opts.PrecisionGoal)) =>
              (ret.ok <=> ExactZero(x0))
        /\ x0 = NonNum => ~ret.ok

\* C11 witness: an expression that evaluates to zero, tested with no goal.
C11_Witness ==
    /\ solver = "is_zero"
    /\ pc = "done"
    /\ x0 = Unevaluated(0)
    /\ opts.AccuracyGoal.t = "Infinity"
    /\ opts.PrecisionGoal.t = "Missing"
    /\ ret.ok

\* C12 as claimed: for a numeric non-zero v and at least one goal present,
\* is_zero returns true exactly when 10^(-accuracy)/|v| + 10^(-precision) > 1,
\* the term of an absent goal omitted (only precision: 10^(-precision) > 1).
C12_ToleranceBandAsClaimed ==
    (/\ solver = "is_zero"
     /\ pc = "done"
     /\ ~ExactZero(x0)
     /\ x0 # NonNum
     /\ ~(GoalAbsent(opts.AccuracyGoal) /\ GoalAbsent(opts.PrecisionGoal))) =>
        LET m == AbsI(x0.v)
            acc == GoalNumber(opts.AccuracyGoal)
            prec == GoalNumber(opts.PrecisionGoal)
        IN  ret.ok <=>
                IF GoalAbsent(opts.AccuracyGoal) THEN prec < 0
                ELSE IF GoalAbsent(opts.PrecisionGoal) THEN AccuracyExceeds(m, acc)
                ELSE BandExceedsOne(m, acc, prec)

\* the goals of o2 are present where those of o1 are, and are no smaller
Tightened(o1, o2) ==
    /\ GoalAbsent(o1.AccuracyGoal) = GoalAbsent(o2.AccuracyGoal)
    /\ GoalAbsent(o1.PrecisionGoal) = GoalAbsent(o2.PrecisionGoal)
    /\ ~GoalAbsent(o1.AccuracyGoal) =>
          GoalNumber(o2.AccuracyGoal) >= GoalNumber(o1.AccuracyGoal)
    /\ ~GoalAbsent(o1.PrecisionGoal) =>
          GoalNumber(o2.PrecisionGoal) >= GoalNumber(o1.PrecisionGoal)

\* 10^(-acc) + |x0| * 10^(-prec) on the grid, an absent term omitted
EpsilonFormula(m, accOpt, precOpt) ==
    LET acc == GoalNumber(accOpt)
        prec == GoalNumber(precOpt)
    IN  (IF GoalAbsent(accOpt) THEN 0
         ELSE RoundDiv(Pow10(0 - acc) * Unit, Pow10(acc)))
        + (IF GoalAbsent(precOpt) THEN 0
           ELSE RoundDiv(m * Pow10(0 - prec), Pow10(prec)))

\* C13: determine_epsilon returns 10^(-accuracy) + |x0|*10^(-precision)
\* (absent term omitted; 1e-10 when neither goal is present), and for a
\* fixed x0 a goal pair with the same goals present and no smaller goal
\* numbers never gives a larger eps.
C13_EpsilonMonotone ==
    (solver = "determine_epsilon" /\ pc = "done") =>
        /\ ret.eps.v = EpsilonFormula(AbsI(x0.v), opts.AccuracyGoal,
                                      opts.PrecisionGoal)
        /\ ret.eps.v >= 0
        /\ \A o2 \in GoalOptions :
              Tightened(opts, o2) => determine_epsilon(x0, o2).v <= ret.eps.v

\* C13 witness: a negative reference value with both goals given, for which
\* tightening the precision goal alone makes eps strictly smaller.
C13_Witness ==
    /\ solver = "determine_epsilon"
    /\ pc = "done"
    /\ x0.v < 0
    /\ opts.AccuracyGoal.t = "Number"
    /\ opts.PrecisionGoal.t = "Number"
    /\ \E o2 \in GoalOptions :
          /\ Tightened(opts, o2)
          /\ o2.AccuracyGoal = opts.AccuracyGoal
          /\ determine_epsilon(x0, o2).v < ret.eps.v

\* what C14 says an option resolves to
ClaimedGoal(opt) ==
    IF opt.t = "Automatic" THEN [some |-> TRUE, v |-> 12]
    ELSE IF opt.t = "Number" THEN [some |-> TRUE, v |-> opt.v]
    ELSE [some |-> FALSE, v |-> 0]

\* C14: get_accuracy_and_prec returns (never raises) and resolves each goal
\* from its own option alone: Automatic to 12, Infinity to absent, a value
\* that is no number to absent, a number to itself, a missing option to
\* absent.
C14_GoalsResolveIndependently ==
    (solver = "get_accuracy_and_prec" /\ pc = "done") =>
        /\ ret.kind = "return"
        /\ ret.acc_goal = ClaimedGoal(opts.AccuracyGoal)
        /\ ret.prec_goal = ClaimedGoal(opts.PrecisionGoal)

\* C14 witness: AccuracyGoal -> Infinity resolved next to PrecisionGoal ->
\* Automatic.
C14_Witness ==
    /\ solver = "get_accuracy_and_prec"
    /\ pc = "done"
    /\ opts.AccuracyGoal.t = "Infinity"
    /\ opts.PrecisionGoal.t = "Automatic"
    /\ ~ret.acc_goal.some
    /\ ret.prec_goal = [some |-> TRUE, v |-> 12]

----------------------------------------------------------------------------
(* Monitors: properties checked under MonitorSpec *)

----------------------------------------------------------------------------
(* Fold of mathics/builtin/atomic/numbers.py *)

FLOAT == 0

MPMATH == 1

SYMBOLIC == 2

RECURSIVE Pow2(_)
Pow2(k) == IF k <= 0 THEN 1 ELSE 2 * Pow2(k - 1)

\* Numbers of the fold are integer multiples of 1/FoldUnit.  An exact
\* (symbolic) value is any such multiple; a machine float is a multiple of
\* GridStep(MachinePrecision); an arbitrary-precision number of precision p
\* is a multiple of GridStep(p).  FoldUnit is large enough for MaxLen - 1
\* exact halvings of the values drawn.
FoldUnit == Pow2(MaxLen)

\* the precision of a machine real, between the two precisions drawn for
\* arbitrary-precision reals
MachinePrecision == 2

LowPrecision == 1

HighPrecision == 3

GridStep(p) == IF p = LowPrecision THEN 2 * FoldUnit
               ELSE IF p = MachinePrecision THEN FoldUnit
               ELSE FoldUnit \div 2

\* z rounded to the nearest number of precision p
Quantize(p, z) == RoundDiv(z, GridStep(p)) * GridStep(p)

\* a value: how it is represented ("float", "mp", "exact"; "none" for
\* None), its magnitude, and its precision (0 for an exact value)
Value(rep, v, p) == [rep |-> rep, v |-> v, prec |-> p]

NoValue == Value("none", 0, 0)

\* self.operands[mode]: round_to_float, to_mpmath (under the working
\* precision), or the value itself
as_operand(md, p, t) ==
    IF md = FLOAT THEN Value("float", Quantize(MachinePrecision, t.v), MachinePrecision)
    ELSE IF md = MPMATH THEN Value("mp", Quantize(p, t.v), p)
    ELSE t

\* out(z): Real(z), Real(z, precision), or z
out(md, p, z) ==
    IF md = FLOAT THEN Value("float", z.v, MachinePrecision)
    ELSE IF md = MPMATH THEN Value("mp", Quantize(p, z.v), p)
    ELSE z

\* min_prec over the operands of a span: exact operands have no precision
RECURSIVE min_prec(_)
min_prec(s_operands) ==
    IF s_operands = <<>> THEN 0
    ELSE LET rest == min_prec(Tail(s_operands))
             here == Head(s_operands).val.prec
         IN  IF here = 0 THEN rest
             ELSE IF rest = 0 \/ here < rest THEN here
             ELSE rest

\* One step of the generator of _fold, an implementation of the subclass:
\* here the mean of the state and the operand, computed in the arithmetic
\* of the mode.
Step(md, p, st, y) ==
    IF md = FLOAT
    THEN Value("float", Quantize(MachinePrecision, RoundDiv(st.v + y.v, 2)),
               MachinePrecision)
    ELSE IF md = MPMATH
    THEN Value("mp", Quantize(p, RoundDiv(st.v + y.v, 2)), p)
    ELSE Value("exact", (st.v + y.v) \div 2, 0)

\* ScanSpan without the break at an operand of a higher tier
ScanSpanToEnd(ops, md, k, i, j) == IF k >= Len(ops) THEN j ELSE Len(ops)

\* the inner loop of _spans over operands[k:], with j as it stands
RECURSIVE ScanSpan(_, _, _, _, _)
ScanSpan(ops, md, k, i, j) ==
    IF k + i >= Len(ops) THEN j
    ELSE IF ops[k + i + 1].tag > md THEN j
    ELSE ScanSpan(ops, md, k, i + 1, i + k + 1)

\* SpanEnd without "if k == 0 and j == 1: j = 0"
SpanEndKeepingInit(ops, md, k, j) == ScanSpan(ops, md, k, 0, j)

\* j after one round of the outer loop of _spans
SpanEnd(ops, md, k, j) ==
    LET j1 == ScanSpan(ops, md, k, 0, j)
    IN  IF k = 0 /\ j1 = 1 THEN 0 ELSE j1

\* _spans(operands): the slices <<k, j>> of FLOAT, MPMATH and SYMBOLIC
Fold_spans(ops) ==
    LET jF == SpanEnd(ops, FLOAT, 0, 0)
        jM == SpanEnd(ops, MPMATH, jF, jF)
    IN  <<<<0, jF>>, <<jF, jM>>, <<jM, Len(ops)>>>>

\* operands[spans[mode]]
Slice(ops, sl) == SubSeq(ops, sl[1] + 1, sl[2])

\* after_first with the first operand left in c_operands
after_first_untaken(k) == k

\* c_init = next(c_operands): the first operand of the span is taken out of
\* c_operands before _fold sees them
after_first(k) == k + 1

\* c_init with the carried result handed over as it is
c_init_unconverted(md, p, ini) == ini

\* c_init when init is not None: the carried result in the representation
\* of the mode
c_init(md, p, ini) == as_operand(md, p, ini)

\* The generator of fold run from after a yield to its next yield (yield
\* is the value) or to its end (stop).  g holds its local variables.
RECURSIVE Resume(_)
Resume(g) ==
    IF g.mode > SYMBOLIC THEN [g EXCEPT !.stop = TRUE]
    ELSE LET sl == g.spans[g.mode + 1]
             s_operands == Slice(g.operands, sl)
         IN  IF ~g.generator
             THEN IF s_operands = <<>>
                  THEN Resume([g EXCEPT !.mode = @ + 1])
                  ELSE LET p == IF g.mode = MPMATH THEN min_prec(s_operands)
                                ELSE 0
                           first == as_operand(g.mode, p, s_operands[1].val)
                       IN  IF g.init.rep = "none"
                           THEN Resume([g EXCEPT !.generator = TRUE,
                                                 !.precision = p,
                                                 !.state = first,
                                                 !.init = out(g.mode, p, first),
                                                 !.consumed = after_first(sl[1])])
                           ELSE Resume([g EXCEPT !.generator = TRUE,
                                                 !.precision = p,
                                                 !.state = c_init(g.mode, p, g.init),
                                                 !.consumed = sl[1]])
             ELSE IF g.consumed < sl[2]
                  THEN LET y == as_operand(g.mode, g.precision,
                                           g.operands[g.consumed + 1].val)
                           z == Step(g.mode, g.precision, g.state, y)
                       IN  [g EXCEPT !.state = z,
                                     !.consumed = @ + 1,
                                     !.yield = out(g.mode, g.precision, z)]
                  ELSE Resume([g EXCEPT !.mode = @ + 1, !.generator = FALSE])

\* the local variables as the generator finds them when it is resumed:
\* after "yield x" it builds operands and spans, after "yield y" it
\* executes "init = y"
Resumed ==
    [operands |-> operands,
     spans |-> IF pc = "yield_x" THEN Fold_spans(operands) ELSE spans,
     mode |-> mode, generator |-> generator, consumed |-> consumed,
     state |-> state,
     init |-> IF pc = "yield_y" THEN yielded[Len(yielded)] ELSE init,
     precision |-> precision, stop |-> FALSE, yield |-> NoValue]

\* the first next(): yield x
fold ==
    /\ solver = "fold"
    /\ pc = "start"
    /\ yielded' = <<operands[1].val>>
    /\ pc' = "yield_x"
    /\ UNCHANGED <<operands, spans, mode, generator, consumed, state, init,
                   precision>>
    /\ UNCHANGED <<twin, session, solver, f, opts, x0, count, minVars, currval,
                   secantVars, msgs, ret, stepLog, evalLog, passes, trail,
                   last>>

\* a next() that ends at "yield y"
fold_next ==
    /\ solver = "fold"
    /\ pc \in {"yield_x", "yield_y"}
    /\ LET g == Resume(Resumed)
       IN  /\ ~g.stop
           /\ spans' = g.spans
           /\ mode' = g.mode
           /\ generator' = g.generator
           /\ consumed' = g.consumed
           /\ state' = g.state
           /\ init' = g.init
           /\ precision' = g.precision
           /\ yielded' = Append(yielded, g.yield)
           /\ pc' = "yield_y"
    /\ UNCHANGED <<twin, session, operands, solver, f, opts, x0, count, minVars,
                   currval, secantVars, msgs, ret, stepLog, evalLog, passes,
                   trail, last>>

\* a next() that runs off the end of fold: StopIteration
fold_stop ==
    /\ solver = "fold"
    /\ pc \in {"yield_x", "yield_y"}
    /\ LET g == Resume(Resumed)
       IN  /\ g.stop
           /\ spans' = g.spans
           /\ mode' = g.mode
           /\ generator' = g.generator
           /\ consumed' = g.consumed
           /\ state' = g.state
           /\ init' = g.init
           /\ precision' = g.precision
           /\ pc' = "done"
    /\ UNCHANGED <<twin, session, operands, yielded, solver, f, opts, x0, count,
                   minVars, currval, secantVars, msgs, ret, stepLog, evalLog,
                   passes, trail, last>>

\* an operand as _operands yields it: the tier tag, then the number
Operand(tag, val) == [tag |-> tag, val |-> val]

\* the operands drawn: machine reals, reals of a low and of a high
\* precision, exact numbers
OperandChoices ==
    {Operand(FLOAT, Value("float", 0, MachinePrecision)),
     Operand(FLOAT, Value("float", FoldUnit, MachinePrecision)),
     Operand(MPMATH, Value("mp", 2 * FoldUnit, LowPrecision)),
     Operand(MPMATH, Value("mp", FoldUnit \div 2, HighPrecision)),
     Operand(SYMBOLIC, Value("exact", 3 * (FoldUnit \div 2), 0))}

RECURSIVE OperandLists(_)
OperandLists(n) ==
    IF n = 0 THEN {<<>>}
    ELSE {Append(l, o) : l \in OperandLists(n - 1), o \in OperandChoices}

FoldInit ==
    /\ solver = "fold"
    /\ \E n \in 1..MaxLen : operands \in OperandLists(n)
    /\ spans = <<>>
    /\ mode = FLOAT
    /\ generator = FALSE
    /\ consumed = 0
    /\ state = NoValue
    /\ init = NoValue
    /\ precision = 0
    /\ yielded = <<>>
    /\ pc = "start"
    /\ f = Objective(0, 0, 0, 0, "none", FALSE, FALSE)
    /\ opts = Options(0, NoGoals, FALSE, FALSE, FALSE, "D", NoRegion)
    /\ x0 = Num(0)
    /\ count = 0
    /\ curr_val = NonNum
    /\ val_d1 = NonNum
    /\ val_d2 = NonNum
    /\ d1 = FALSE
    /\ d2 = FALSE
    /\ eps = [v |-> 0, pos |-> FALSE]
    /\ currval = NonNum
    /\ x1 = NonNum
    /\ f0 = NonNum
    /\ f1 = NonNum
    /\ msgs = <<>>
    /\ ret = NoReturn
    /\ stepLog = <<>>
    /\ evalLog = <<>>
    /\ passes = 0
    /\ trail = <<>>
    /\ last = "none"
    /\ twin = NoTwin(x0)
    /\ session = NewSession

FoldNext ==
    \/ fold
    \/ fold_next
    \/ fold_stop

FoldSpec == FoldInit /\ [][FoldNext]_vars

----------------------------------------------------------------------------
(* Fold: properties checked under FoldSpec *)

\* working precision of a span folded in the mode md
SpanPrecision(md, s_operands) ==
    IF md = MPMATH THEN min_prec(s_operands) ELSE 0

\* A plain reduction in one tier: the results of folding s_operands from the
\* state st, each result being the state of the next step.
RECURSIVE Reduction(_, _, _, _)
Reduction(md, p, st, s_operands) ==
    IF s_operands = <<>> THEN <<>>
    ELSE LET y == as_operand(md, p, Head(s_operands).val)
             r == out(md, p, Step(md, p, st, y))
         IN  <<r>> \o Reduction(md, p, r, Tail(s_operands))

\* The spans folded one after the other from the mode md on.  carry is the
\* last result so far (NoValue before the first non-empty span); a later
\* span starts from carry in its own representation and folds all of its
\* operands, the first non-empty span starts from its first operand.
RECURSIVE SpanBySpan(_, _, _)
SpanBySpan(ops, md, carry) ==
    IF md > SYMBOLIC THEN <<>>
    ELSE LET s == Slice(ops, Fold_spans(ops)[md + 1])
             p == SpanPrecision(md, s)
         IN  IF s = <<>> THEN SpanBySpan(ops, md + 1, carry)
             ELSE LET start == IF carry.rep = "none"
                               THEN as_operand(md, p, s[1].val)
                               ELSE as_operand(md, p, carry)
                      steps == IF carry.rep = "none" THEN Tail(s) ELSE s
                      res == Reduction(md, p, start, steps)
                      final == IF res # <<>> THEN res[Len(res)]
                               ELSE IF carry.rep = "none" THEN out(md, p, start)
                               ELSE carry
                  IN  res \o SpanBySpan(ops, md + 1, final)

IsPrefix(s, t) == Len(s) <= Len(t) /\ s = SubSeq(t, 1, Len(s))

OneTier(ops) == \A i \in 1..Len(ops) : ops[i].tag = ops[1].tag

\* C16: what Fold.fold yields after x is what folding span by span gives:
\* the FLOAT span first, then each later span started from the last result
\* of the span before, converted to the representation of the new tier; for
\* operands of one tier it is the plain reduction in that tier from the
\* first operand; results already yielded are not computed again.
C16_FoldSpanBySpan ==
    (solver = "fold" /\ pc # "start") =>
        /\ IsPrefix(Tail(yielded), SpanBySpan(operands, FLOAT, NoValue))
        /\ pc = "done" =>
              Tail(yielded) = SpanBySpan(operands, FLOAT, NoValue)
        /\ (pc = "done" /\ OneTier(operands)) =>
              LET md == operands[1].tag
                  p == SpanPrecision(md, operands)
              IN  Tail(yielded) =
                      Reduction(md, p, as_operand(md, p, operands[1].val),
                                Tail(operands))

\* C16 witness: two machine reals, a real of low precision and an exact
\* number were folded to the end; the machine result 1 is not a number of
\* the low precision and was rounded on its way into the second tier.
C16_Witness ==
    /\ solver = "fold"
    /\ pc = "done"
    /\ Len(operands) = 4
    /\ operands[1].tag = FLOAT
    /\ operands[2].tag = FLOAT
    /\ operands[3].tag = MPMATH
    /\ operands[3].val.prec = LowPrecision
    /\ operands[4].tag = SYMBOLIC
    /\ yielded[2].v = FoldUnit
    /\ yielded[3].rep = "mp"
    /\ yielded[4].rep = "exact"

\* the tier a yielded result was computed in
TierOf(val) == IF val.rep = "float" THEN FLOAT
               ELSE IF val.rep = "mp" THEN MPMATH
               ELSE SYMBOLIC

\* C17: Fold.fold yields x first and then one result per operand handed to
\* the step function, in operand order and in the order FLOAT, MPMATH,
\* SYMBOLIC of the tiers; it ends after exactly as many items as there are
\* operands; each result is the state carried into the next step.
C17_OneYieldPerOperand ==
    (solver = "fold" /\ pc # "start") =>
        /\ yielded[1] = operands[1].val
        /\ Len(yielded) <= Len(operands)
        /\ pc = "done" => Len(yielded) = Len(operands)
        /\ pc = "yield_y" =>
              /\ consumed = Len(yielded)
              /\ state = yielded[Len(yielded)]
        /\ \A i \in 2..Len(yielded) :
              /\ TierOf(yielded[i]) >= operands[i].tag
              /\ i > 2 => TierOf(yielded[i - 1]) <= TierOf(yielded[i])

\* C17 witness: MaxLen operands gave MaxLen items, with results of all
\* three tiers among them.
C17_Witness ==
    /\ solver = "fold"
    /\ pc = "done"
    /\ Len(operands) = MaxLen
    /\ Len(yielded) = MaxLen
    /\ \E i, j, k \in 2..Len(yielded) :
          /\ yielded[i].rep = "float"
          /\ yielded[j].rep = "mp"
          /\ yielded[k].rep = "exact"

----------------------------------------------------------------------------
(* The step and the reseed of find_minimum_newton1d *)

\* a pass of the main loop that gets past the test of val_d1
Iterating ==
    solver = "min" /\ pc = "loop" /\ count < maxit /\ ~IsZeroAttr(val_d1)

\* offset of this pass
TrialOffset == NewtonOffset(val_d1, val_d2)

\* x1 of this pass
TrialPoint == Sub(x0, TrialOffset)

\* new_val of this pass
TrialValue == EvalObj(f, is_find_maximum, TrialPoint)

\* LessEqual[new_val, curr_val] is True
Improves == LessEqualTrue(TrialValue, curr_val)

\* the branch a pass takes: an accepted step converges at x1 or moves to x1
\* with its value; a rejected one converges at x0 or calls reset_values
BranchTaken ==
    IF Improves
    THEN IF ZeroTest(apply_N(TrialOffset), Unit, acc_goal, prec_goal)
         THEN /\ pc' = "done"
              /\ ret'.kind = "return"
              /\ ret'.ok
              /\ ret'.point = TrialPoint
         ELSE /\ pc' = "loop"
              /\ x0' = TrialPoint
              /\ curr_val' = TrialValue
              /\ last' = "step"
    ELSE IF ZeroTest(apply_N(TrialOffset), 2 * Unit, acc_goal, prec_goal)
         THEN /\ pc' = "done"
              /\ ret'.kind = "return"
              /\ ret'.ok
              /\ ret'.point = x0
         ELSE last' \in {"reseed", "IndexError"}

\* C19 as claimed: in each iteration of find_minimum_newton1d with trial
\* point x1 = x0 - offset, f(x1) <= f(x0) accepts the step (converged at x1
\* when offset passes the zero test, otherwise x1 and f(x1) become current);
\* otherwise the call converges at x0 when offset/2 passes the zero test and
\* reseeds if not.  A trial point whose value is larger than f(x0) or not
\* numeric never becomes the current point.
C19_RejectedTrialNeverCurrent ==
    [][Iterating =>
          /\ BranchTaken
          /\ ~Improves => ~(pc' = "loop" /\ x0' = TrialPoint)]_vars

\* C19 as amended: the branches are as claimed.  A trial point whose value
\* is not numeric never becomes the current point, and one whose value is
\* larger than f(x0) is never taken by the step: it becomes current only
\* when it is also one of the candidates x0/3, 2*x0 and x0 - offset/2 of the
\* reseed and reset_values selects it.
C19_RejectedTrialOnlyByReseed ==
    [][Iterating =>
          /\ BranchTaken
          /\ (~Improves /\ pc' = "loop" /\ x0' = TrialPoint) =>
                /\ last' = "reseed"
                /\ IsNumber(TrialValue)
                /\ curr_val' = TrialValue
                /\ TrialPoint \in {DivInt(x0, 3), Scale(x0, 2),
                                  Sub(x0, DivInt(TrialOffset, 2))}]_vars

\* C19 witness: the step from 2 to the trial point 4 was rejected, and the
\* reseed, whose candidate 3 is not numeric, made 4 = 2*x0 the current point
\* with a value larger than the value at 2.
C19_Witness ==
    /\ solver = "min"
    /\ last = "reseed"
    /\ Len(trail) = 2
    /\ trail[2].x = Scale(trail[1].x, 2)
    /\ trail[2].val.v > trail[1].val.v
    /\ LET c == reevaluate_coeffs(f, is_find_maximum, trail[1].x,
                                  trail[1].val, d1, d2, eps)
       IN  trail[2].x = Sub(trail[1].x, NewtonOffset(c[1], c[2]))

\* a pass of the main loop that reaches reset_values
Reseeding ==
    /\ Iterating
    /\ ~Improves
    /\ ~ZeroTest(apply_N(TrialOffset), 2 * Unit, acc_goal, prec_goal)

\* the three points of x_try, in order
Candidate(i) ==
    CASE i = 1 -> DivInt(x0, 3)
      [] i = 2 -> Scale(x0, 2)
      [] OTHER -> Sub(x0, DivInt(TrialOffset, 2))

\* the objective at the i-th of them
CandidateValue(i) == EvalObj(f, is_find_maximum, Candidate(i))

\* the candidates that are not discarded
Kept == {i \in 1..3 : IsNumber(CandidateValue(i))}

\* C20: the reseed of find_minimum_newton1d looks at the three candidates
\* x0/3, 2*x0 and x0 - offset/2, discards those whose objective value is not
\* numeric and continues from the remaining one with the smallest value, the
\* earliest of them on a tie; the current point and the current value
\* become that candidate and its value together.
C20_ReseedTakesSmallestKept ==
    [][(Reseeding /\ Kept # {}) =>
          \E i \in Kept :
              /\ \A j \in Kept :
                    /\ CandidateValue(i).v <= CandidateValue(j).v
                    /\ CandidateValue(j).v = CandidateValue(i).v => i <= j
              /\ x0' = Candidate(i)
              /\ curr_val' = CandidateValue(i)
              /\ pc' = "loop"
              /\ last' = "reseed"]_vars

\* the i-th candidate of the reseed that led to the current point
CandidateBefore(i) ==
    LET p == trail[Len(trail) - 1]
        c == reevaluate_coeffs(f, is_find_maximum, p.x, p.val, d1, d2, eps)
    IN  x_try(p.x, NewtonOffset(c[1], c[2]))[i]

\* C20 witness: a reseed whose third candidate was discarded and whose
\* second candidate, with a value smaller than the first one's, became the
\* current point together with its value.
C20_Witness ==
    /\ solver = "min"
    /\ last = "reseed"
    /\ Len(trail) >= 2
    /\ ~IsNumber(EvalObj(f, is_find_maximum, CandidateBefore(3)))
    /\ IsNumber(EvalObj(f, is_find_maximum, CandidateBefore(1)))
    /\ EvalObj(f, is_find_maximum, CandidateBefore(2)).v
          < EvalObj(f, is_find_maximum, CandidateBefore(1)).v
    /\ x0 = CandidateBefore(2)
    /\ curr_val = EvalObj(f, is_find_maximum, CandidateBefore(2))

\* C21: in find_minimum_newton1d the Newton offset is val_d1 / |val_d2|
\* with an exactly zero val_d2 replaced by 1: whenever both derivative
\* values evaluate to numbers the offset is a number (no division by zero)
\* and never has the sign opposite to val_d1, so the trial point lies on the
\* downhill side of x0 whatever the sign of the curvature.
C21_OffsetDefinedDownhill ==
    (Iterating /\ IsNumber(val_d1) /\ IsNumber(apply_N(val_d2))) =>
        /\ IsNumber(TrialOffset)
        /\ SignI(TrialOffset.v) \in {0, SignI(val_d1.v)}
        /\ IsNumber(TrialPoint)

----------------------------------------------------------------------------
(* The step and the reseed of find_root_newton *)

\* minus of this pass
NewtonMinus == sub(f, opts.Jacobian, x0)

\* x1 of this pass
NewtonTrialPoint == Sub(x0, NewtonMinus.result)

\* new_currval of this pass
NewtonTrialResidual == EvalAbsF(f, NewtonTrialPoint)

\* a pass of the loop that reaches the test of decreasing
NewtonStepping ==
    /\ solver = "newton"
    /\ pc = "loop"
    /\ count < maxit
    /\ ~NewtonMinus.none
    /\ IsNumber(NewtonTrialPoint)
    /\ ~is_zero(NewtonTrialResidual, acc_goal, prec_goal)

\* |f(x1)| is strictly smaller than |f(x0)|
ResidualSmaller ==
    /\ IsNumber(NewtonTrialResidual)
    /\ IsNumber(currval)
    /\ AbsI(NewtonTrialResidual.v) < AbsI(currval.v)

\* C22: in find_root_newton a step to x1 that did not pass the zero test is
\* accepted (x1 and |f(x1)| become current) only when |f(x1)| is strictly
\* smaller than |f(x0)|; when it is equal, larger or not comparable the step
\* is rejected, the solver reseeds from x0 and does not move to x1.  In both
\* cases the iteration counter advances by one.
C22_StepAcceptedOnlyWhenSmaller ==
    [][NewtonStepping =>
          /\ count' = count + 1
          /\ pc' = "loop"
          /\ IF ResidualSmaller
             THEN /\ x0' = NewtonTrialPoint
                  /\ currval' = NewtonTrialResidual
                  /\ last' = "step"
             ELSE /\ last' = "reseed"
                  /\ x0' = new_seed(f, x0, NewtonMinus.result)[1]
                  /\ x0' # NewtonTrialPoint]_vars

\* a pass of the loop of find_root_newton that calls new_seed
NewtonReseeding ==
    NewtonStepping /\ decreasing(NewtonTrialResidual, currval)

\* x1, x2, x3, x4 of new_seed, in the order they are scanned
SeedCandidate(i) ==
    CASE i = 1 -> Scale(x0, 2)
      [] i = 2 -> DivInt(x0, 3)
      [] i = 3 -> Sub(x0, DivInt(NewtonMinus.result, 2))
      [] OTHER -> Add(x0, DivInt(NewtonMinus.result, 3))

\* absf at the i-th of them
SeedResidual(i) == EvalAbsF(f, SeedCandidate(i))

\* the candidates whose residual is a number
SeedKept == {i \in 1..4 : IsNumber(SeedResidual(i))}

\* C23: the reseed of find_root_newton evaluates |f| at the candidates
\* 2*x0, x0/3, x0 - minus/2 and x0 + minus/3 and returns, with its residual,
\* the candidate of smallest |f| among those whose |f| is a number; in the
\* fixed scanning order a later candidate replaces the running best only
\* when its residual is strictly smaller.
C23_SeedTakesSmallestKept ==
    [][(NewtonReseeding /\ SeedKept # {}) =>
          \E i \in SeedKept :
              /\ \A j \in SeedKept :
                    /\ SeedResidual(i).v <= SeedResidual(j).v
                    /\ SeedResidual(j).v = SeedResidual(i).v => i <= j
              /\ x0' = SeedCandidate(i)
              /\ currval' = SeedResidual(i)]_vars

----------------------------------------------------------------------------
(* The passes of find_root_secant *)

\* a pass of the loop with f0 == f1
Degenerate == solver = "secant" /\ pc = "body" /\ f0 = f1

\* what a degenerate pass leaves alone, and where it goes on
PerturbFrame ==
    /\ x0' = x0
    /\ f0' = f0
    /\ count' = count
    /\ f1' = EvalF(f, x1')
    /\ IF IsNumber(f1')
       THEN pc' = "while" /\ ret' = ret
       ELSE pc' = "done" /\ ret' = ReturnPoint(x0, FALSE)

\* C24 as claimed: when f(x0) = f(x1) in find_root_secant no secant division
\* is made; x0 and f(x0) stay, the second point moves 75% of the way from
\* its own position back toward the first (new x1 = x1 - 0.75*(x1 - x0)),
\* f is evaluated again there and the iteration counter stays.
C24_PerturbTowardFirst ==
    [][Degenerate =>
          /\ PerturbFrame
          /\ x1' = Num(x1.v - RoundDiv(3 * (x1.v - x0.v), 4))]_vars

\* C24 as amended: as claimed, but the second point moves to
\* x0 + 0.75*(x1 - x0), a quarter of the way from its own position toward
\* the first; when f is not a number there the call returns x0 and false.
C24_PerturbKeepsThreeQuarters ==
    [][Degenerate =>
          /\ PerturbFrame
          /\ x1' = Num(x0.v + RoundDiv(3 * (x1.v - x0.v), 4))]_vars

\* C24 witness: the bracket of the call had equal values at its ends and its
\* second end was moved once, to a point different from both ends, where f
\* is a number.
C24_Witness ==
    /\ solver = "secant"
    /\ last = "perturb"
    /\ count = 0
    /\ x0 = Region(opts, twin.x0)[1]
    /\ x1 # x0
    /\ x1 # Region(opts, twin.x0)[2]
    /\ x1.v = x0.v + RoundDiv(3 * (Region(opts, twin.x0)[2].v - x0.v), 4)
    /\ f1 = EvalF(f, x1)
    /\ IsNumber(f1)

\* a pass of the loop with f0 # f1
Secant == solver = "secant" /\ pc = "body" /\ f0 # f1

\* C25: each non-degenerate pass of find_root_secant computes
\* x2 = (x0*f1 - x1*f0)/(f1 - f0), shifts the window to (x1, x2) and returns
\* success exactly when, after the shift, the two points are equal or f(x2)
\* is exactly zero, whatever the goals; otherwise it counts one iteration.
\* Whenever f is not a number at an end of the initial bracket, at a
\* perturbed point or at x2, the call returns false with the earlier point
\* of the window as it was before any shift of that pass.
C25_SecantStep ==
    [][(solver = "secant" /\ pc \in {"start", "body"}) =>
          /\ Secant =>
               LET x2 == Num(RoundDiv(x0.v * f1.v - x1.v * f0.v, f1.v - f0.v))
                   f2 == EvalF(f, x2)
               IN  IF ~IsNumber(f2)
                   THEN /\ pc' = "done"
                        /\ ret' = ReturnPoint(x0, FALSE)
                        /\ x0' = x0
                   ELSE /\ x0' = x1
                        /\ x1' = x2
                        /\ f0' = f1
                        /\ f1' = f2
                        /\ IF x2 = x1 \/ f2.v = 0
                           THEN pc' = "done" /\ ret'.kind = "return" /\ ret'.ok
                           ELSE /\ pc' = "while"
                                /\ count' = count + 1
                                /\ ret' = ret
          /\ (pc' = "done" /\ ret'.ok) =>
               /\ Secant
               /\ x1' = x0' \/ f1'.v = 0
          /\ (pc = "start" /\ pc' = "done") =>
               /\ ~IsNumber(f0') \/ ~IsNumber(f1')
               /\ ret' = ReturnPoint(Region(opts, x0)[1], FALSE)
          /\ (Degenerate /\ pc' = "done") =>
               /\ ~IsNumber(f1')
               /\ ret' = ReturnPoint(x0, FALSE)]_vars

\* C25 witness: after at least one counted iteration a step reached a point
\* x2, different from the other point of the window, where f is exactly
\* zero, and the call returned success.
C25_Witness ==
    /\ solver = "secant"
    /\ pc = "done"
    /\ last = "break"
    /\ ret.ok
    /\ count >= 1
    /\ x1 # x0
    /\ f1.v = 0
    /\ f1 = EvalF(f, x1)

----------------------------------------------------------------------------
(* The spans of Fold *)

\* the operands (counted from 1) of the slice of mode md
InSpan(md) == {i \in 1..Len(operands) : spans[md + 1][1] < i /\ i <= spans[md + 1][2]}

\* C26: for every sequence of operand tags, Fold._spans returns the slices
\* FLOAT = [0, j1), MPMATH = [j1, j2), SYMBOLIC = [j2, n) with
\* 0 <= j1 <= j2 <= n: contiguous, disjoint, covering every operand exactly
\* once, in ascending order of the tiers; every operand lies in a span whose
\* tier is at least its own tag.
C26_SpansPartitionByTier ==
    (solver = "fold" /\ spans # <<>>) =>
        /\ Len(spans) = 3
        /\ spans[FLOAT + 1][1] = 0
        /\ spans[FLOAT + 1][2] = spans[MPMATH + 1][1]
        /\ spans[MPMATH + 1][2] = spans[SYMBOLIC + 1][1]
        /\ spans[SYMBOLIC + 1][2] = Len(operands)
        /\ 0 <= spans[FLOAT + 1][2]
        /\ spans[FLOAT + 1][2] <= spans[MPMATH + 1][2]
        /\ spans[MPMATH + 1][2] <= Len(operands)
        /\ \A i \in 1..Len(operands) :
              /\ Cardinality({md \in {FLOAT, MPMATH, SYMBOLIC} : i \in InSpan(md)}) = 1
              /\ \A md \in {FLOAT, MPMATH, SYMBOLIC} :
                    i \in InSpan(md) => operands[i].tag <= md

\* C26 witness: MaxLen operands whose tags are not in ascending order (a
\* FLOAT operand follows an MPMATH one) were split into a FLOAT and an MPMATH
\* span that are both non-empty, the later FLOAT operand lying in the MPMATH
\* span.
C26_Witness ==
    /\ solver = "fold"
    /\ spans # <<>>
    /\ Len(operands) = MaxLen
    /\ InSpan(FLOAT) # {}
    /\ \E i \in InSpan(MPMATH) : operands[i].tag = FLOAT
    /\ InSpan(SYMBOLIC) = {}

\* the tier of the first span that is not empty
FirstTier ==
    IF InSpan(FLOAT) # {} THEN FLOAT
    ELSE IF InSpan(MPMATH) # {} THEN MPMATH
    ELSE SYMBOLIC

\* C27: in Fold.fold a tier whose span is empty is skipped, consuming and
\* yielding nothing; the first span that is not empty begins at operand 0,
\* whose first operand is the initial state of that tier; a FLOAT or MPMATH
\* span that would hold the initial operand alone is empty, so the initial
\* operand is folded in the tier of the operand that follows it.
C27_InitialOperandWithItsSuccessor ==
    (solver = "fold" /\ spans # <<>>) =>
        /\ spans[FirstTier + 1][1] = 0
        /\ \A md \in {FLOAT, MPMATH} : spans[md + 1] # <<0, 1>>
        /\ Len(operands) >= 2 => {1, 2} \subseteq InSpan(FirstTier)
        /\ pc = "yield_y" =>
              /\ InSpan(mode) # {}
              /\ consumed \in InSpan(mode)
              /\ consumed = Len(yielded)
              /\ mode >= FirstTier
        /\ (pc = "yield_y" /\ Len(yielded) = 2) =>
              /\ mode = FirstTier
              /\ yielded[2] =
                    out(mode, precision,
                        Step(mode, precision,
                             as_operand(mode, precision, operands[1].val),
                             as_operand(mode, precision, operands[2].val)))
        /\ pc = "done" =>
              Len(yielded) = IF Len(operands) = 0 THEN 1 ELSE Len(operands)

\* C27 witness: the initial operand is a machine real and the next operand
\* has a precision, so the FLOAT span is empty and is skipped: the first
\* result is computed in the MPMATH tier from the initial operand, and the
\* last operand, an exact one, is folded in the SYMBOLIC tier.
C27_Witness ==
    /\ solver = "fold"
    /\ pc = "done"
    /\ Len(operands) = 3
    /\ operands[1].tag = FLOAT
    /\ operands[2].tag = MPMATH
    /\ operands[3].tag = SYMBOLIC
    /\ InSpan(FLOAT) = {}
    /\ InSpan(MPMATH) = {1, 2}
    /\ yielded[2].rep = "mp"
    /\ yielded[3].rep = "exact"

----------------------------------------------------------------------------
(* What the solvers report *)

\* the objective at the point of the return, with the sign given back to
\* FindMaximum
ValueAtReturn == Reported(is_find_maximum,
                          EvalObj(f, is_find_maximum, ret.point))

\* C28: every return of find_minimum_newton1d from inside or after its loop
\* reports the objective at the reported point (negated back for
\* FindMaximum); a call that converges by accepting the trial point x1
\* returns f(x1) with x1, not the value at the previous point.
C28_ReportedValueAtReportedPoint ==
    (solver = "min" /\ pc = "done" /\ ret.kind = "return" /\ ret.hasval)
        => ret.value = ValueAtReturn

\* the break of find_root_secant was taken on abs(f2) == 0
ZeroResidualBreak ==
    /\ solver = "secant"
    /\ pc = "done"
    /\ last = "break"
    /\ f1.v = 0

\* C29: when find_root_secant returns converged = true because the newest
\* residual is exactly zero, the returned point is the newest point of the
\* window, where that residual was computed, so f is zero at it.
C29_ZeroResidualAtReturnedPoint ==
    ZeroResidualBreak =>
        /\ ret.ok
        /\ ret.point = x1
        /\ EvalF(f, ret.point) = Num(0)

\* of two residuals that are numbers the newer is no larger
NoLarger(new, old) == (IsNumber(old) /\ IsNumber(new)) => new.v <= old.v

\* C30: in find_root_newton the current residual |f(x0)| never increases
\* from one iteration to the next: after an accepted step and after a reseed
\* alike the residual at the new current point is no larger than the
\* residual at the previous current point.
C30_ResidualNeverIncreases ==
    solver = "newton" =>
        \A i \in 2..Len(trail) :
            /\ trail[i].how \in {"step", "reseed"}
            /\ trail[i].val = EvalAbsF(f, trail[i].x)
            /\ NoLarger(trail[i].val, trail[i - 1].val)

----------------------------------------------------------------------------
(* Set, Unset, Clear and ClearAll on a user symbol *)

(* test_set_and_clear evaluates lists such as                              *)
(*     {F[a, b],  F[x__]:=H[x]; F[a,b],  F=.; F[a,b]}                      *)
(* in one session: each element of the list is F[a,b] alone, or one        *)
(* operation on F followed by F[a,b].  The operations themselves are       *)
(* builtins of the expression engine; they are modelled by what the        *)
(* expected results of the test say of them.                               *)

\* F = Q
Set(d) == Definitions("Q", d.rule)

\* F[x__] := H[x]
SetDelayed(d) == Definitions(d.own, "H")

\* F =. that removes everything Clear removes
Unset_as_Clear(d) == NoDefinitions

\* F =. removes the own value of F
Unset(d) == Definitions("none", d.rule)

\* F[x__] =. removes the rule
Unset_rule(d) == Definitions(d.own, "none")

\* Clear[F] removes the values and the rules of F
Clear(d) == NoDefinitions

\* ClearAll[F] removes the values and the rules of F (and its attributes)
ClearAll(d) == NoDefinitions

\* F[a, b]: the head is evaluated first, so an own value of F replaces the
\* head; otherwise the rule of F is applied; otherwise nothing applies
evaluate(d) ==
    IF d.own = "Q" THEN "Q[a, b]"
    ELSE IF d.rule = "H" THEN "H[a, b]"
    ELSE "F[a, b]"

\* one more element of the list: the operation op has left the definitions
\* d, and F[a, b] is evaluated under them
Element(op, d) ==
    /\ solver = "session"
    /\ Len(session.out) < MaxLen
    /\ session' =
          [definitions |-> d,
           out |-> Append(session.out, evaluate(d)),
           op |-> op,
           before |-> session.definitions,
           assigned |-> IF op = "Set" /\ session.definitions.own = "none"
                        THEN session.definitions
                        ELSE session.assigned]
    /\ UNCHANGED <<twin, foldVars, solver, pc, f, opts, x0, count, minVars,
                   currval, secantVars, msgs, ret, stepLog, evalLog, passes,
                   trail, last>>

\* F[a, b]
session_evaluate == Element("evaluate", session.definitions)

\* F = Q; F[a, b]
Set_call == Element("Set", Set(session.definitions))

\* F[x__] := H[x]; F[a, b].  The left-hand side is written while F has no
\* own value, as in every list of the test.
SetDelayed_call ==
    /\ session.definitions.own = "none"
    /\ Element("SetDelayed", SetDelayed(session.definitions))

\* F =.; F[a, b]
Unset_call == Element("Unset", Unset(session.definitions))

\* F[x__] =.; F[a, b], written while F has no own value
Unset_rule_call ==
    /\ session.definitions.own = "none"
    /\ Element("Unset_rule", Unset_rule(session.definitions))

\* Clear[F]; F[a, b]
Clear_call == Element("Clear", Clear(session.definitions))

\* ClearAll[F]; F[a, b]
ClearAll_call == Element("ClearAll", ClearAll(session.definitions))

\* the next case of the parametrized test: a new list, in the same session
test_set_and_clear ==
    /\ solver = "session"
    /\ session.out # <<>>
    /\ session' = [session EXCEPT !.out = <<>>, !.op = "none"]
    /\ UNCHANGED <<twin, foldVars, solver, pc, f, opts, x0, count, minVars,
                   currval, secantVars, msgs, ret, stepLog, evalLog, passes,
                   trail, last>>

\* the case (None, None, None)
reset_session ==
    /\ solver = "session"
    /\ session # NewSession
    /\ session' = NewSession
    /\ UNCHANGED <<twin, foldVars, solver, pc, f, opts, x0, count, minVars,
                   currval, secantVars, msgs, ret, stepLog, evalLog, passes,
                   trail, last>>

SessionInit ==
    /\ solver = "session"
    /\ session = NewSession
    /\ FoldIdle
    /\ pc = "start"
    /\ f = Objective(0, 0, 0, 0, "none", FALSE, FALSE)
    /\ opts = Options(0, NoGoals, FALSE, FALSE, FALSE, "D", NoRegion)
    /\ x0 = Num(0)
    /\ count = 0
    /\ curr_val = NonNum
    /\ val_d1 = NonNum
    /\ val_d2 = NonNum
    /\ d1 = FALSE
    /\ d2 = FALSE
    /\ eps = [v |-> 0, pos |-> FALSE]
    /\ currval = NonNum
    /\ x1 = NonNum
    /\ f0 = NonNum
    /\ f1 = NonNum
    /\ msgs = <<>>
    /\ ret = NoReturn
    /\ stepLog = <<>>
    /\ evalLog = <<>>
    /\ passes = 0
    /\ trail = <<>>
    /\ last = "none"
    /\ twin = NoTwin(x0)

SessionNext ==
    \/ session_evaluate
    \/ Set_call
    \/ SetDelayed_call
    \/ Unset_call
    \/ Unset_rule_call
    \/ Clear_call
    \/ ClearAll_call
    \/ test_set_and_clear
    \/ reset_session

SessionSpec == SessionInit /\ [][SessionNext]_vars

\* the result of the element evaluated last
LastResult == session.out[Len(session.out)]

====
